---------------------------- MODULE Spec2Model ----------------------------
(***************************************************************************)
(* Gateway template synchronisation of Mission Control:                    *)
(*   backend/app/core/agent_tokens.py      the token codec                 *)
(*   backend/app/services/template_sync.py the backoff driver, the agent   *)
(*                                         resolver and                    *)
(*                                         sync_gateway_templates          *)
(*                                                                         *)
(* Text is modelled as a sequence of one-character strings, bytes as a     *)
(* sequence of numbers 0..255, None (and the empty string, which the code  *)
(* treats alike in every truth test) as the empty sequence.  Time is in    *)
(* milliseconds.                                                           *)
(***************************************************************************)
EXTENDS Integers, Sequences, FiniteSets, TLC

(***************************************************************************)
(* Python helpers                                                          *)
(***************************************************************************)
Min(a, b) == IF a <= b THEN a ELSE b

Max(a, b) == IF a >= b THEN a ELSE b

None == << >>

\* str.split(sep): the fields between the separators, at least one field.
Split(s, sep) ==
    LET at == { i \in 1..Len(s) : s[i] = sep }
        n == Cardinality(at)
        cut(k) == IF k = 0 THEN 0
                  ELSE IF k = n + 1 THEN Len(s) + 1
                  ELSE CHOOSE i \in at : Cardinality({ j \in at : j < i }) = k - 1
    IN  [k \in 1..(n + 1) |-> SubSeq(s, cut(k - 1) + 1, cut(k) - 1)]

\* sep.join(fields)
RECURSIVE Join(_, _)
Join(fields, sep) ==
    IF fields = << >> THEN << >>
    ELSE IF Len(fields) = 1 THEN fields[1]
    ELSE fields[1] \o << sep >> \o Join(Tail(fields), sep)

Digits == << "0", "1", "2", "3", "4", "5", "6", "7", "8", "9" >>

IsDigit(c) == \E i \in 1..10 : Digits[i] = c

DigitValue(c) == (CHOOSE i \in 1..10 : Digits[i] = c) - 1

\* f"{n}" of a natural number
RECURSIVE IntToStr(_)
IntToStr(n) ==
    IF n < 10 THEN << Digits[n + 1] >>
    ELSE Append(IntToStr(n \div 10), Digits[(n % 10) + 1])

RECURSIVE DigitsValue(_, _)
DigitsValue(s, acc) ==
    IF s = << >> THEN acc ELSE DigitsValue(Tail(s), 10 * acc + DigitValue(Head(s)))

\* A call's outcome: the value it returns, or the ValueError it raises.
Returns(v) == [raised |-> FALSE, value |-> v]

ValueError == [raised |-> TRUE, value |-> << >>]

\* int(text).  A sign is accepted as Python does.
ParseInt(s) ==
    LET neg == s # << >> /\ Head(s) = "-"
        signed == s # << >> /\ Head(s) \in {"-", "+"}
        body == IF signed THEN Tail(s) ELSE s
    IN  IF body = << >> \/ \E i \in 1..Len(body) : ~IsDigit(body[i])
        THEN [raised |-> TRUE, value |-> 0]
        ELSE [raised |-> FALSE,
              value |-> IF neg THEN 0 - DigitsValue(body, 0) ELSE DigitsValue(body, 0)]

(***************************************************************************)
(* Token codec: backend/app/core/agent_tokens.py                           *)
(***************************************************************************)
ITERATIONS == 200000

SALT_BYTES == 16

\* The URL-safe base64 alphabet, value i-1 at position i.
B64Alphabet ==
    << "A", "B", "C", "D", "E", "F", "G", "H", "I", "J", "K", "L", "M",
       "N", "O", "P", "Q", "R", "S", "T", "U", "V", "W", "X", "Y", "Z",
       "a", "b", "c", "d", "e", "f", "g", "h", "i", "j", "k", "l", "m",
       "n", "o", "p", "q", "r", "s", "t", "u", "v", "w", "x", "y", "z",
       "0", "1", "2", "3", "4", "5", "6", "7", "8", "9", "-", "_" >>

IsB64Char(c) == \E i \in 1..64 : B64Alphabet[i] = c

B64Value(c) == (CHOOSE i \in 1..64 : B64Alphabet[i] = c) - 1

B64Char(v) == B64Alphabet[v + 1]

\* base64.urlsafe_b64encode(value).decode().rstrip("="): three bytes make four
\* characters; a last group of one byte makes two, of two bytes three.
RECURSIVE _b64encode(_)
_b64encode(value) ==
    IF value = << >> THEN << >>
    ELSE IF Len(value) = 1 THEN
        << B64Char(value[1] \div 4), B64Char((value[1] % 4) * 16) >>
    ELSE IF Len(value) = 2 THEN
        << B64Char(value[1] \div 4),
           B64Char((value[1] % 4) * 16 + value[2] \div 16),
           B64Char((value[2] % 16) * 4) >>
    ELSE
        << B64Char(value[1] \div 4),
           B64Char((value[1] % 4) * 16 + value[2] \div 16),
           B64Char((value[2] % 16) * 4 + value[3] \div 64),
           B64Char(value[3] % 64) >>
        \o _b64encode(SubSeq(value, 4, Len(value)))

RECURSIVE B64DecodeData(_)
B64DecodeData(d) ==
    IF Len(d) < 2 THEN << >>
    ELSE IF Len(d) = 2 THEN << d[1] * 4 + d[2] \div 16 >>
    ELSE IF Len(d) = 3 THEN
        << d[1] * 4 + d[2] \div 16, (d[2] % 16) * 16 + d[3] \div 4 >>
    ELSE
        << d[1] * 4 + d[2] \div 16,
           (d[2] % 16) * 16 + d[3] \div 4,
           (d[3] % 4) * 64 + d[4] >>
        \o B64DecodeData(SubSeq(d, 5, Len(d)))

B64DataOf(s) ==
    LET data == SelectSeq(s, IsB64Char)
    IN  [i \in 1..Len(data) |-> B64Value(data[i])]

\* base64.urlsafe_b64decode(value + "=" * (-len(value) % 4)): the decoder drops
\* every character outside the alphabet, ignores the bits of a last group that
\* do not fill a byte, and raises binascii.Error (a ValueError) when the padding
\* does not complete the last group of data characters.
_b64decode(value) ==
    LET padding == (4 - (Len(value) % 4)) % 4
        data == B64DataOf(value)
        rest == Len(data) % 4
    IN  IF rest = 1 \/ (rest = 2 /\ padding < 2) \/ (rest = 3 /\ padding < 1)
        THEN ValueError
        ELSE Returns(B64DecodeData(data))

\* secrets.token_urlsafe(32): the raw tokens a run can draw or meet.
RawTokens == { << "t", "1" >>, << "t", "2" >>, << "t", "3" >>, << "t", "4" >> }

TokenByte(token) ==
    IF token = << "t", "1" >> THEN 1
    ELSE IF token = << "t", "2" >> THEN 2
    ELSE IF token = << "t", "3" >> THEN 3
    ELSE IF token = << "t", "4" >> THEN 4
    ELSE 0

Zeros(n) == [i \in 1..n |-> 0]

\* hashlib.pbkdf2_hmac("sha256", token, salt, iterations): 32 bytes, here a
\* collision-free stand-in built from the three inputs; ValueError when the
\* iteration count is below 1.
pbkdf2_hmac(token, salt, iterations) ==
    IF iterations < 1 THEN ValueError
    ELSE LET head == << TokenByte(token), iterations % 256,
                        (iterations \div 256) % 256,
                        (iterations \div 65536) % 256, Len(salt) % 256 >>
             body == head \o SubSeq(salt, 1, Min(Len(salt), SALT_BYTES))
         IN  Returns(body \o Zeros(32 - Len(body)))

\* secrets.token_bytes(SALT_BYTES): a salt of the model.
SaltOf(b) == << b >> \o Zeros(SALT_BYTES - 2) \o << 255 - b >>

AlgorithmTag == << "p", "b", "k", "d", "f", "2", "_", "s", "h", "a", "2", "5", "6" >>

hash_agent_token_mut_raw(token, salt) == token

hash_agent_token(token, salt) ==
    Join(<< AlgorithmTag, IntToStr(ITERATIONS), _b64encode(salt),
            _b64encode(pbkdf2_hmac(token, salt, ITERATIONS).value) >>, "$")

\* verify_agent_token: "True", "False", or "ValueError" when an exception
\* leaves the function: only split() and int() are inside its try blocks,
\* base64 decoding and pbkdf2_hmac are not.
verify_agent_token(token, stored_hash) ==
    LET fields == Split(stored_hash, "$")
    IN  IF Len(fields) # 4 THEN "False"
        ELSE IF fields[1] # AlgorithmTag THEN "False"
        ELSE LET iterations_int == ParseInt(fields[2])
                 salt == _b64decode(fields[3])
                 expected_digest == _b64decode(fields[4])
             IN  IF iterations_int.raised THEN "False"
                 ELSE IF salt.raised THEN "ValueError"
                 ELSE IF expected_digest.raised THEN "ValueError"
                 ELSE LET candidate ==
                              pbkdf2_hmac(token, salt.value, iterations_int.value)
                      IN  IF candidate.raised THEN "ValueError"
                          ELSE IF candidate.value = expected_digest.value
                               THEN "True" ELSE "False"

\* The codec on the tokens, salts and stored values of the model, computed once.
ModelSalts == { SaltOf(7), SaltOf(200) }

HashMemo == { << t, s, hash_agent_token(t, s) >> : t \in RawTokens, s \in ModelSalts }

HashOf(token, salt) ==
    IF token \in RawTokens /\ salt \in ModelSalts
    THEN (CHOOSE x \in HashMemo : x[1] = token /\ x[2] = salt)[3]
    ELSE hash_agent_token(token, salt)

\* A stored value with an iteration count of 0.
ZeroIterHash == Join(<< AlgorithmTag, << "0" >>, << "a", "a" >>, << "b", "b" >> >>, "$")

ModelHashes == { x[3] : x \in HashMemo } \cup { ZeroIterHash } \cup RawTokens

VerifyMemo ==
    { << t, h, verify_agent_token(t, h) >> : t \in RawTokens, h \in ModelHashes }

Verify(token, stored_hash) ==
    IF token \in RawTokens /\ stored_hash \in ModelHashes
    THEN (CHOOSE x \in VerifyMemo : x[1] = token /\ x[2] = stored_hash)[3]
    ELSE verify_agent_token(token, stored_hash)

(***************************************************************************)
(* Text helpers                                                            *)
(***************************************************************************)
UpperCase ==
    << "A", "B", "C", "D", "E", "F", "G", "H", "I", "J", "K", "L", "M",
       "N", "O", "P", "Q", "R", "S", "T", "U", "V", "W", "X", "Y", "Z" >>

LowerCase ==
    << "a", "b", "c", "d", "e", "f", "g", "h", "i", "j", "k", "l", "m",
       "n", "o", "p", "q", "r", "s", "t", "u", "v", "w", "x", "y", "z" >>

IsUpper(c) == \E i \in 1..26 : UpperCase[i] = c

IsLower(c) == \E i \in 1..26 : LowerCase[i] = c

LowerChar(c) ==
    IF IsUpper(c) THEN LowerCase[CHOOSE i \in 1..26 : UpperCase[i] = c] ELSE c

\* str.lower()
Lower(s) == [i \in 1..Len(s) |-> LowerChar(s[i])]

IsSpace(c) == c \in {" ", "\t"}

\* str.strip()
RECURSIVE LStrip(_)
LStrip(s) == IF s # << >> /\ IsSpace(Head(s)) THEN LStrip(Tail(s)) ELSE s

RECURSIVE RStrip(_)
RStrip(s) ==
    IF s # << >> /\ IsSpace(s[Len(s)]) THEN RStrip(SubSeq(s, 1, Len(s) - 1)) ELSE s

Strip(s) == RStrip(LStrip(s))

\* str.startswith(prefix)
StartsWith(s, prefix) ==
    Len(s) >= Len(prefix) /\ SubSeq(s, 1, Len(prefix)) = prefix

\* marker in message
Contains(s, sub) ==
    \E i \in 1..(Len(s) - Len(sub) + 1) : SubSeq(s, i, i + Len(sub) - 1) = sub

(***************************************************************************)
(* Gateway errors and the backoff driver: template_sync.py                 *)
(***************************************************************************)
_NON_TRANSIENT_GATEWAY_ERROR_MARKERS ==
    { << "u", "n", "s", "u", "p", "p", "o", "r", "t", "e", "d", " ", "f", "i", "l", "e" >> }

_TRANSIENT_GATEWAY_ERROR_MARKERS ==
    { << "c", "o", "n", "n", "e", "c", "t", " ", "c", "a", "l", "l", " ", "f", "a", "i", "l", "e", "d" >>,
      << "c", "o", "n", "n", "e", "c", "t", "i", "o", "n", " ", "r", "e", "f", "u", "s", "e", "d" >>,
      << "e", "r", "r", "n", "o", " ", "1", "1", "1" >>,
      << "e", "c", "o", "n", "n", "r", "e", "f", "u", "s", "e", "d" >>,
      << "d", "i", "d", " ", "n", "o", "t", " ", "r", "e", "c", "e", "i", "v", "e", " ", "a", " ", "v", "a", "l", "i", "d", " ", "h", "t", "t", "p", " ", "r", "e", "s", "p", "o", "n", "s", "e" >>,
      << "n", "o", " ", "r", "o", "u", "t", "e", " ", "t", "o", " ", "h", "o", "s", "t" >>,
      << "n", "e", "t", "w", "o", "r", "k", " ", "i", "s", " ", "u", "n", "r", "e", "a", "c", "h", "a", "b", "l", "e" >>,
      << "h", "o", "s", "t", " ", "i", "s", " ", "d", "o", "w", "n" >>,
      << "n", "a", "m", "e", " ", "o", "r", " ", "s", "e", "r", "v", "i", "c", "e", " ", "n", "o", "t", " ", "k", "n", "o", "w", "n" >>,
      << "r", "e", "c", "e", "i", "v", "e", "d", " ", "1", "0", "1", "2" >>,
      << "s", "e", "r", "v", "i", "c", "e", " ", "r", "e", "s", "t", "a", "r", "t" >>,
      << "h", "t", "t", "p", " ", "5", "0", "3" >>,
      << "h", "t", "t", "p", " ", "5", "0", "2" >>,
      << "h", "t", "t", "p", " ", "5", "0", "4" >>,
      << "t", "e", "m", "p", "o", "r", "a", "r" >>,
      << "t", "i", "m", "e", "o", "u", "t" >>,
      << "t", "i", "m", "e", "d", " ", "o", "u", "t" >>,
      << "c", "o", "n", "n", "e", "c", "t", "i", "o", "n", " ", "c", "l", "o", "s", "e", "d" >>,
      << "c", "o", "n", "n", "e", "c", "t", "i", "o", "n", " ", "r", "e", "s", "e", "t" >> }

\* An exception: its class and str(exc).  The classes each class derives from
\* (itself included); OpenClawGatewayError is a RuntimeError.
ClassBases(cls) ==
    IF cls = "OpenClawGatewayError"
    THEN { "OpenClawGatewayError", "RuntimeError", "Exception" }
    ELSE IF cls = "OSError" THEN { "OSError", "Exception" }
    ELSE IF cls = "TimeoutError" THEN { "TimeoutError", "OSError", "Exception" }
    ELSE IF cls \in { "RuntimeError", "ValueError" } THEN { cls, "Exception" }
    ELSE { }

IsInstance(exc, classes) == ClassBases(exc.cls) \cap classes # { }

ExcConnRefused == [cls |-> "OpenClawGatewayError", message |-> << "C", "o", "n", "n", "e", "c", "t", "i", "o", "n", " ", "r", "e", "f", "u", "s", "e", "d" >>]

ExcUnsupported == [cls |-> "OpenClawGatewayError", message |-> 
        << "u", "n", "s", "u", "p", "p", "o", "r", "t", "e", "d", " ", "f", "i", "l", "e", " ", "t", "y", "p", "e", ":", " ", ".", "b", "i", "n", " ", "(", "t", "i", "m", "e", "o", "u", "t", ")" >>]

\* What openclaw_call can raise in a run of the model: a transient error and a
\* fatal one that carries the word "timeout".
GatewayErrors == { ExcConnRefused, ExcUnsupported }

ModelErrors == GatewayErrors

_is_transient_gateway_error_mut_any(exc) == IsInstance(exc, { "OpenClawGatewayError" })

_is_transient_gateway_error(exc) ==
    IF ~IsInstance(exc, { "OpenClawGatewayError" }) THEN FALSE
    ELSE LET message == Lower(exc.message)
         IN  IF message = << >> THEN FALSE
             ELSE IF \E marker \in _NON_TRANSIENT_GATEWAY_ERROR_MARKERS :
                         Contains(message, marker)
             THEN FALSE
             ELSE \/ (Contains(message, << "5", "0", "3" >>)
                      /\ Contains(message, << "w", "e", "b", "s", "o", "c", "k", "e", "t" >>))
                  \/ \E marker \in _TRANSIENT_GATEWAY_ERROR_MARKERS :
                         Contains(message, marker)

\* The classification of the model's errors, computed once.
TransientErrors == { e \in ModelErrors : _is_transient_gateway_error(e) }

IsTransient(exc) ==
    IF exc \in ModelErrors THEN exc \in TransientErrors
    ELSE _is_transient_gateway_error(exc)

\* _GatewayBackoff.__init__ defaults and the timeout sync_gateway_templates
\* passes (10 * 60 s), in milliseconds; the jitter in thousandths.
timeout_s == 600000

base_delay_s == 750

max_delay_s == 30000

jitter == 200

\* random.uniform(-jitter, jitter), in thousandths: the two ends.
JitterDraws == { 0 - jitter, jitter }

\* _GatewayBackoff(timeout_s=t): the configured timeout and the driver's one
\* mutable field.
_GatewayBackoff(t) == [timeout_s |-> t, delay_s |-> base_delay_s]

\* _GatewayBackoff(timeout_s=10 * 60), the driver of sync_gateway_templates
NewBackoff == _GatewayBackoff(timeout_s)

\* deadline_s = loop.time() + self._timeout_s, taken at each entry of run().
ArmDeadline(bo, t) == t + bo.timeout_s

SleepFor_mut_unclamped(delay, remaining, u) ==
    (delay * (1000 + u)) \div 1000

SleepFor(delay, remaining, u) ==
    LET first == Min(delay, remaining)
        scaled == IF jitter # 0 THEN (first * (1000 + u)) \div 1000 ELSE first
    IN  Max(0, Min(scaled, remaining))

\* One pass of the loop of _GatewayBackoff.run: fn() was awaited from time t,
\* took dur and ended as `outcome`.  The pass ends the run ("return": delay
\* reset; "raise": the error of fn re-raised; "timeout": TimeoutError) or sleeps
\* and goes round again ("retry").
BackoffPass_mut_gives_up_early(bo, deadline_s, t, outcome, dur, u) ==
    LET t1 == t + dur
        remaining == deadline_s - t1
        sleep_s == SleepFor(bo.delay_s, remaining, u)
    IN  IF ~outcome.raised
        THEN [kind |-> "return", delay_s |-> base_delay_s, now |-> t1]
        ELSE IF ~IsTransient(outcome.exc)
        THEN [kind |-> "raise", delay_s |-> bo.delay_s, now |-> t1]
        ELSE IF remaining <= bo.delay_s
        THEN [kind |-> "timeout", delay_s |-> bo.delay_s, now |-> t1]
        ELSE [kind |-> "retry",
              delay_s |-> Min(bo.delay_s * 2, max_delay_s),
              now |-> t1 + sleep_s]

BackoffPass_mut_fatal_after_deadline(bo, deadline_s, t, outcome, dur, u) ==
    LET t1 == t + dur
        remaining == deadline_s - t1
        sleep_s == SleepFor(bo.delay_s, remaining, u)
    IN  IF ~outcome.raised
        THEN [kind |-> "return", delay_s |-> base_delay_s, now |-> t1]
        ELSE IF remaining <= 0
        THEN [kind |-> "timeout", delay_s |-> bo.delay_s, now |-> t1]
        ELSE IF ~IsTransient(outcome.exc)
        THEN [kind |-> "raise", delay_s |-> bo.delay_s, now |-> t1]
        ELSE [kind |-> "retry",
              delay_s |-> Min(bo.delay_s * 2, max_delay_s),
              now |-> t1 + sleep_s]

BackoffPass_mut_resets_always(bo, deadline_s, t, outcome, dur, u) ==
    LET t1 == t + dur
        remaining == deadline_s - t1
        sleep_s == SleepFor(bo.delay_s, remaining, u)
    IN  IF ~outcome.raised
        THEN [kind |-> "return", delay_s |-> base_delay_s, now |-> t1]
        ELSE IF ~IsTransient(outcome.exc)
        THEN [kind |-> "raise", delay_s |-> base_delay_s, now |-> t1]
        ELSE IF remaining <= 0
        THEN [kind |-> "timeout", delay_s |-> base_delay_s, now |-> t1]
        ELSE [kind |-> "retry",
              delay_s |-> Min(bo.delay_s * 2, max_delay_s),
              now |-> t1 + sleep_s]

BackoffPass(bo, deadline_s, t, outcome, dur, u) ==
    LET t1 == t + dur
        remaining == deadline_s - t1
        sleep_s == SleepFor(bo.delay_s, remaining, u)
    IN  IF ~outcome.raised
        THEN [kind |-> "return", delay_s |-> base_delay_s, now |-> t1]
        ELSE IF ~IsTransient(outcome.exc)
        THEN [kind |-> "raise", delay_s |-> bo.delay_s, now |-> t1]
        ELSE IF remaining <= 0
        THEN [kind |-> "timeout", delay_s |-> bo.delay_s, now |-> t1]
        ELSE [kind |-> "retry",
              delay_s |-> Min(bo.delay_s * 2, max_delay_s),
              now |-> t1 + sleep_s]

(***************************************************************************)
(* Agent resolver: template_sync.py                                        *)
(***************************************************************************)
SESSION_KEY_PARTS_MIN == 2

IsSlugChar(c) == IsLower(c) \/ IsDigit(c)

\* re.sub(r"[^a-z0-9]+", "-", text): every run of other characters becomes "-".
RECURSIVE SubRuns(_, _)
SubRuns(s, inRun) ==
    IF s = << >> THEN << >>
    ELSE IF IsSlugChar(Head(s)) THEN << Head(s) >> \o SubRuns(Tail(s), FALSE)
    ELSE IF inRun THEN SubRuns(Tail(s), TRUE)
    ELSE << "-" >> \o SubRuns(Tail(s), TRUE)

RECURSIVE StripDash(_)
StripDash(s) ==
    IF s # << >> /\ Head(s) = "-" THEN StripDash(Tail(s))
    ELSE IF s # << >> /\ s[Len(s)] = "-" THEN StripDash(SubSeq(s, 1, Len(s) - 1))
    ELSE s

\* _slugify(value); uuid is what uuid4().hex would give.
_slugify(value, uuid) ==
    LET slug == StripDash(SubRuns(Lower(value), FALSE))
    IN  IF slug # << >> THEN slug ELSE uuid

AgentPrefix == << "a", "g", "e", "n", "t", ":" >>

_agent_id_from_session_key(session_key) ==
    LET value == Strip(session_key)
    IN  IF value = << >> THEN None
        ELSE IF ~StartsWith(value, AgentPrefix) THEN None
        ELSE LET parts == Split(value, ":")
             IN  IF Len(parts) < SESSION_KEY_PARTS_MIN THEN None
                 ELSE Strip(parts[2])

_gateway_agent_id(agent, uuid) ==
    LET session_key == agent.openclaw_session_id
        parts == Split(session_key, ":")
    IN  IF StartsWith(session_key, AgentPrefix)
           /\ Len(parts) >= SESSION_KEY_PARTS_MIN /\ parts[2] # << >>
        THEN parts[2]
        ELSE _slugify(agent.name, uuid)

\* A JSON-like value: [t |-> "str" | "list" | "dict" | "null", v |-> ...]; a
\* dict's v is a sequence of << key, value >> pairs, a list's a sequence of values.
JStr(s) == [t |-> "str", v |-> s]

JList(items) == [t |-> "list", v |-> items]

JDict(pairs) == [t |-> "dict", v |-> pairs]

JNull == [t |-> "null", v |-> << >>]

\* dict.get(key)
DictGet(d, key) ==
    IF \E i \in 1..Len(d.v) : d.v[i][1] = key
    THEN d.v[CHOOSE i \in 1..Len(d.v) : d.v[i][1] = key /\ \A j \in (i + 1)..Len(d.v) : d.v[j][1] # key][2]
    ELSE JNull

IsNonBlankStr(j) == j.t = "str" /\ Strip(j.v) # << >>

RECURSIVE FirstKey(_, _)
FirstKey(d, keys) ==
    IF keys = << >> THEN None
    ELSE IF IsNonBlankStr(DictGet(d, Head(keys))) THEN Strip(DictGet(d, Head(keys)).v)
    ELSE FirstKey(d, Tail(keys))

RECURSIVE FromItems(_)
FromItems(items) ==
    IF items = << >> THEN None
    ELSE LET item == Head(items)
             byKey == IF item.t = "dict"
                      THEN FirstKey(item, << "id", "agentId", "agent_id" >>)
                      ELSE None
         IN  IF IsNonBlankStr(item) THEN Strip(item.v)
             ELSE IF byKey # None THEN byKey
             ELSE FromItems(Tail(items))

_from_list(items) == IF items.t # "list" THEN None ELSE FromItems(items.v)

RECURSIVE FirstList(_, _)
FirstList(d, keys) ==
    IF keys = << >> THEN None
    ELSE IF _from_list(DictGet(d, Head(keys))) # None
         THEN _from_list(DictGet(d, Head(keys)))
    ELSE FirstList(d, Tail(keys))

_extract_agent_id(payload) ==
    IF payload.t = "list" THEN _from_list(payload)
    ELSE IF payload.t # "dict" THEN None
    ELSE LET direct == FirstKey(payload, << "defaultId", "default_id",
                                           "defaultAgentId", "default_agent_id" >>)
         IN  IF direct # None THEN direct
             ELSE FirstList(payload, << "agents", "items", "list", "data" >>)

\* _TOOLS_KV_RE = ^(?P<key>[A-Z0-9_]+)=(?P<value>.*)$ on a stripped line:
\* None, or << key, value >>.
IsToolsKeyChar(c) == IsUpper(c) \/ IsDigit(c) \/ c = "_"

ToolsKvMatch(line) ==
    IF ~\E i \in 1..Len(line) : line[i] = "=" THEN None
    ELSE LET eq == CHOOSE i \in 1..Len(line) :
                       line[i] = "=" /\ \A j \in 1..(i - 1) : line[j] # "="
         IN  IF eq = 1 \/ \E j \in 1..(eq - 1) : ~IsToolsKeyChar(line[j]) THEN None
             ELSE << SubSeq(line, 1, eq - 1), SubSeq(line, eq + 1, Len(line)) >>

\* _parse_tools_md(content).get(key): content is the sequence of its lines
\* (splitlines); the last line that sets the key wins; None when none does.
RECURSIVE ParseToolsGet(_, _, _)
ParseToolsGet(lines, key, found) ==
    IF lines = << >> THEN found
    ELSE LET line == Strip(Head(lines))
             m == ToolsKvMatch(line)
         IN  IF line = << >> \/ Head(line) = "#" \/ m = None \/ m[1] # key
             THEN ParseToolsGet(Tail(lines), key, found)
             ELSE ParseToolsGet(Tail(lines), key, << Strip(m[2]) >>)

_parse_tools_md_get(content, key) ==
    LET found == ParseToolsGet(content, key, << >>)
    IN  IF found = << >> THEN None ELSE found[1]

AuthTokenKey == << "A", "U", "T", "H", "_", "T", "O", "K", "E", "N" >>

(***************************************************************************)
(* Pause state of boards: _paused_board_ids                                *)
(***************************************************************************)
PauseCmd == << "/", "p", "a", "u", "s", "e" >>

ResumeCmd == << "/", "r", "e", "s", "u", "m", "e" >>

\* SQL trim(): blanks only.
RECURSIVE SqlTrim(_)
SqlTrim(s) ==
    IF s # << >> /\ Head(s) = " " THEN SqlTrim(Tail(s))
    ELSE IF s # << >> /\ s[Len(s)] = " " THEN SqlTrim(SubSeq(s, 1, Len(s) - 1))
    ELSE s

\* The rows of the statement: chat entries of the boards whose trimmed,
\* lower-cased content is a command.
CommandRows(memory, board_ids) ==
    { i \in 1..Len(memory) :
        /\ memory[i].board_id \in board_ids
        /\ memory[i].is_chat
        /\ Lower(SqlTrim(memory[i].content)) \in { PauseCmd, ResumeCmd } }

\* ORDER BY board_id, created_at DESC with DISTINCT ON (board_id): per board the
\* row created last.
LatestRow_mut_first(memory, rows, b) ==
    CHOOSE i \in rows :
        /\ memory[i].board_id = b
        /\ \A j \in rows : memory[j].board_id = b
                              => memory[j].created_at >= memory[i].created_at

LatestRow(memory, rows, b) ==
    CHOOSE i \in rows :
        /\ memory[i].board_id = b
        /\ \A j \in rows : memory[j].board_id = b
                              => memory[j].created_at <= memory[i].created_at

_paused_board_ids_mut_none(memory, board_ids) == {}

_paused_board_ids(memory, board_ids) ==
    IF board_ids = {} THEN {}
    ELSE LET rows == CommandRows(memory, board_ids)
         IN  { b \in board_ids :
                 /\ \E i \in rows : memory[i].board_id = b
                 /\ Lower(Strip(memory[LatestRow(memory, rows, b)].content)) = PauseCmd }

(***************************************************************************)
(* The database, the gateway and one invocation of sync_gateway_templates  *)
(***************************************************************************)
\* Bound of the model: the transient failures one run() sleeps on.
MaxRetries == 1

VARIABLES
    db,            \* agents table: agent id -> row
    board_memory,  \* board memory rows, in creation order
    gw_files,      \* per gateway: its file store, gateway agent id -> lines of TOOLS.md
    gw_list,       \* per gateway: its reply to agents.list
    pc,            \* per invocation: the await it is suspended at
    args,          \* per invocation: the arguments of the call
    result,        \* per invocation: GatewayTemplatesSyncResult
    backoff,       \* per invocation: the _GatewayBackoff instance
    now,           \* per invocation: loop.time(), measured from the entry of run()
    deadline_s,    \* per invocation: deadline_s of the run() in progress
    attempt,       \* per invocation: failures the run() in progress has slept on
    loc,           \* per invocation: local variables
    sess,          \* per invocation: the agent objects loaded in its session
    log            \* per invocation: gateway calls begun and tokens generated

vars == << db, board_memory, gw_files, gw_list, pc, args, result, backoff, now,
           deadline_s, attempt, loc, sess, log >>

\* The gateway invocation p talks to (a driver on its own makes no gateway
\* call), and its file store.
GatewayOf(p) == IF "gateway" \in DOMAIN args[p] THEN args[p].gateway.id ELSE "g1"

FilesOf(p) == gw_files[GatewayOf(p)]

MainSessionKey == << "a", "g", "e", "n", "t", ":", "m", "a", "i", "n", ":", "m", "a", "i", "n" >>

\* boards table: board id -> gateway id
BoardGateway == [b \in {"b1", "b2", "b3"} |-> IF b = "b3" THEN "g2" ELSE "g1"]

GatewayIds == { BoardGateway[b] : b \in DOMAIN BoardGateway }

\* await Board.objects.filter_by(gateway_id=gateway.id).all(session)
BoardsOf(gateway) == { b \in DOMAIN BoardGateway : BoardGateway[b] = gateway.id }

\* uuid4().hex
Uuid == << "f", "0", "0", "d" >>

GwId(agent) == _gateway_agent_id(agent, Uuid)

\* utcnow(): a wall-clock reading later than the timestamp it replaces.
utcnow(previous) == previous + 1

\* The lines of the TOOLS.md a provisioned agent gets, carrying its token.
ToolsDoc(token) == << << "#", " ", "T" >>, << >>, AuthTokenKey \o << "=" >> \o token >>

\* ---- GatewayTemplatesSyncResult and GatewayTemplatesSyncError ----
NewResult ==
    [agents_updated |-> 0, agents_skipped |-> 0, main_updated |-> FALSE,
     errors |-> << >>]

\* agent_id: << >> or << id >>; board_id: "none" or a board id.
SyncError(agent_id, board_id, kind, text) ==
    [agent_id |-> agent_id, board_id |-> board_id,
     message |-> [kind |-> kind, text |-> text]]

AddError_mut_drop(res, e) == res

AddError(res, e) == [res EXCEPT !.errors = Append(@, e)]

\* result.agents_updated += 1
Updated_mut_twice(res) == [res EXCEPT !.agents_updated = @ + 2]

Updated(res) == [res EXCEPT !.agents_updated = @ + 1]

\* result.agents_skipped += 1
Skipped_mut_uncounted(res) == res

Skipped(res) == [res EXCEPT !.agents_skipped = @ + 1]

\* result.main_updated = True
MainUpdated_mut_unset(res) == res

MainUpdated(res) == [res EXCEPT !.main_updated = TRUE]

\* _gateway_timeout_message(exc)
_gateway_timeout_message(exc) == [kind |-> "timeout", text |-> exc.message]

TimeoutEntry(agent_id, board_id, exc) ==
    [agent_id |-> agent_id, board_id |-> board_id,
     message |-> _gateway_timeout_message(exc)]

\* ---- what one awaited gateway call can do ----
NoExc == [cls |-> "None", message |-> << >>]

\* A call that hangs ends in a transport error, which is transient.
Durations(exc) == IF IsTransient(exc) THEN {0, timeout_s} ELSE {0}

Attempts(errors) ==
    { [raised |-> FALSE, exc |-> NoExc, dur |-> 0] }
    \cup UNION { { [raised |-> TRUE, exc |-> e, dur |-> d] : d \in Durations(e) } :
                  e \in errors }

\* random.uniform is drawn only on the way to a sleep.
Jitters(at) == IF at.raised /\ at.dur = 0 THEN JitterDraws ELSE {0}

\* except (OSError, RuntimeError, ValueError)
SoftFailureClasses == { "OSError", "RuntimeError", "ValueError" }

\* ---- agents.files.get ----
FileShapes == { "str", "content", "file" }

\* The reply matters only when the call returns.
Shapes(at) == IF at.raised THEN { "str" } ELSE FileShapes

FilePayload(shape, doc) ==
    IF shape = "str" THEN JStr(doc)
    ELSE IF shape = "content" THEN JDict(<< << "name", JStr(<< >>) >>, << "content", JStr(doc) >> >>)
    ELSE IF shape = "file" THEN JDict(<< << "file", JDict(<< << "content", JStr(doc) >> >>) >> >>)
    ELSE JNull

\* _get_agent_file after the call returned `payload`
_get_agent_file(payload) ==
    IF payload.t = "str" THEN payload.v
    ELSE IF payload.t = "dict"
    THEN IF DictGet(payload, "content").t = "str" THEN DictGet(payload, "content").v
         ELSE IF DictGet(payload, "file").t = "dict"
                 /\ DictGet(DictGet(payload, "file"), "content").t = "str"
         THEN DictGet(DictGet(payload, "file"), "content").v
         ELSE None
    ELSE None

\* _get_existing_auth_token after _get_agent_file gave `tools`
_get_existing_auth_token(tools) ==
    IF tools = None THEN None
    ELSE Strip(_parse_tools_md_get(tools, AuthTokenKey))

\* ---- token reconciliation ----
\* generate_agent_token() and the salt hash_agent_token draws
GeneratedTokens == { << "t", "3" >>, << "t", "4" >> }

FreshSalts == { SaltOf(200) }

Draws == [token : GeneratedTokens, salt : FreshSalts]

\* Nothing is drawn unless tokens are rotated.
DrawsFor(a) ==
    IF a.rotate_tokens THEN Draws
    ELSE { [token |-> << "t", "3" >>, salt |-> SaltOf(200)] }

\* Lines 409-415 and 420-426 (538-544 and 559-565 for the main agent): a token is
\* generated, its hash is stored on the agent and committed, and the new token
\* becomes the auth token.  st is [hash, token, commits, trace].
Rekey_mut_keep(st, d) ==
    [st EXCEPT !.hash = HashOf(d.token, d.salt), !.commits = @ + 1,
               !.trace = Append(@, [op |-> "rotate", token |-> d.token])]

Rekey(st, d) ==
    [st EXCEPT !.hash = HashOf(d.token, d.salt), !.token = d.token,
               !.commits = @ + 1,
               !.trace = Append(@, [op |-> "rotate", token |-> d.token])]

\* agent.agent_token_hash and not verify_agent_token(auth_token, hash): the
\* verdict, "unchecked" when there is no hash to check against.
CheckToken_mut_never_verifies(st) ==
    IF st.hash = None THEN "unchecked" ELSE "False"

CheckToken(st) ==
    IF st.hash = None THEN "unchecked" ELSE Verify(st.token, st.hash)

VerdictOp(verdict) ==
    IF verdict = "True" THEN "verified"
    ELSE IF verdict = "False" THEN "mismatch"
    ELSE "verify_raised"

Checked(st, verdict) ==
    IF verdict = "unchecked" THEN st
    ELSE [st EXCEPT !.trace = Append(@, [op |-> VerdictOp(verdict), token |-> st.token])]

\* Lines 397-435 for one agent: what becomes of the fetched token.
\*   kind   "skip": unreadable, no rotation; "raised": verify_agent_token raised;
\*          "provision": the agent goes on to provisioning with `token`
\*   hash   the agent's hash afterwards; commits: how often it was committed
\*   warn   whether the mismatch warning is recorded
\*   trace  the tokens generated and the verdicts reached, in order
Reconciled(kind, st, warn) ==
    [kind |-> kind, hash |-> st.hash, commits |-> st.commits, token |-> st.token,
     warn |-> warn, trace |-> st.trace]

\* Lines 417-435: what follows the check of the token, st being the state
\* with the verdict noted.
AfterCheck_mut_always_rekeys(st, verdict, rotate_tokens, d2) ==
    IF verdict = "ValueError" THEN Reconciled("raised", st, FALSE)
    ELSE IF verdict = "False"
    THEN Reconciled("provision", Rekey(st, d2), FALSE)
    ELSE Reconciled("provision", st, FALSE)

AfterCheck(st, verdict, rotate_tokens, d2) ==
    IF verdict = "ValueError" THEN Reconciled("raised", st, FALSE)
    ELSE IF verdict = "False" /\ rotate_tokens
    THEN Reconciled("provision", Rekey(st, d2), FALSE)
    ELSE Reconciled("provision", st, verdict = "False")

\* Line 417: the check of the token held in st.
CheckFrom(st, rotate_tokens, d2) ==
    AfterCheck(Checked(st, CheckToken(st)), CheckToken(st), rotate_tokens, d2)

FetchedState(stored_hash, fetched) ==
    [hash |-> stored_hash, token |-> fetched, commits |-> 0, trace |-> << >>]

ReconcileAgentToken(stored_hash, fetched, rotate_tokens, d1, d2) ==
    IF fetched = None /\ ~rotate_tokens
    THEN Reconciled("skip", FetchedState(stored_hash, None), FALSE)
    ELSE IF fetched = None
    THEN CheckFrom(Rekey(FetchedState(stored_hash, None), d1), rotate_tokens, d2)
    ELSE CheckFrom(FetchedState(stored_hash, fetched), rotate_tokens, d2)

\* Lines 536-573: the same statements, written out again for the main agent.
ReconcileMainToken_mut_unchecked(stored_hash, fetched, rotate_tokens, d1, d2) ==
    IF fetched = None /\ ~rotate_tokens
    THEN Reconciled("skip", FetchedState(stored_hash, None), FALSE)
    ELSE IF fetched = None
    THEN Reconciled("provision", Rekey(FetchedState(stored_hash, None), d1), FALSE)
    ELSE Reconciled("provision", FetchedState(stored_hash, fetched), FALSE)

ReconcileMainToken(stored_hash, fetched, rotate_tokens, d1, d2) ==
    IF fetched = None /\ ~rotate_tokens
    THEN Reconciled("skip", FetchedState(stored_hash, None), FALSE)
    ELSE IF fetched = None
    THEN CheckFrom(Rekey(FetchedState(stored_hash, None), d1), rotate_tokens, d2)
    ELSE CheckFrom(FetchedState(stored_hash, fetched), rotate_tokens, d2)

(***************************************************************************)
(* The states a run starts from                                            *)
(***************************************************************************)
Token1 == << "t", "1" >>

Token2 == << "t", "2" >>

\* A digest hash_agent_token made for Token1 before the run.
Hash1 == HashOf(Token1, SaltOf(7))

\* A TOOLS.md that sets no AUTH_TOKEN.
NoTokenDoc == << << "#", " ", "T" >>, << "B", "A", "S", "E", "_", "U", "R", "L", "=", "h", "t", "t", "p", ":", "/", "/", "x" >> >>

\* What an agent's row holds and what the gateway holds for it.
InSync == [hash |-> Hash1, doc |-> ToolsDoc(Token1)]

Drifted == [hash |-> Hash1, doc |-> ToolsDoc(Token2)]

Unreadable == [hash |-> Hash1, doc |-> NoTokenDoc]

Unhashed == [hash |-> None, doc |-> ToolsDoc(Token1)]

Malformed == [hash |-> ZeroIterHash, doc |-> ToolsDoc(Token1)]

AgentIds == { 1, 2 }

Situations(i) ==
    IF i = 1 THEN { InSync, Drifted, Unhashed, Malformed }
    ELSE { InSync, Unreadable }

BareKey == << "m", "a", "i", "n" >>

\* The gateway's replies to agents.list.
ListWithDefault == JDict(<< << "defaultId", JStr(<< " ", "m", "a", "i", "n" >>) >> >>)

ListOfAgents ==
    JDict(<< << "agents", JList(<< JNull, JDict(<< << "id", JStr(BareKey) >> >>) >>) >> >>)

\* The main agent: whether its row exists, its situation, the gateway's main
\* session key and its reply to agents.list.
MainWorlds ==
    { [present |-> FALSE, sit |-> InSync, key |-> MainSessionKey, list |-> ListWithDefault] }
    \cup { [present |-> TRUE, sit |-> s, key |-> MainSessionKey, list |-> ListWithDefault] :
             s \in { InSync, Drifted, Unreadable } }
    \cup { [present |-> TRUE, sit |-> InSync, key |-> MainSessionKey, list |-> l] :
             l \in { ListOfAgents, JNull } }
    \cup { [present |-> TRUE, sit |-> InSync, key |-> BareKey, list |-> JNull] }

MainId == 0

AgentName(i) == << "A", "d", "a", " ", Digits[i + 1] >>

\* Agents with an odd id are on board b1 and have a session key; the others are
\* on board b2 and have none.
AgentRow(i, hash) ==
    [id |-> i, created_at |-> i, name |-> AgentName(i),
     board_id |-> IF i % 2 = 1 THEN "b1" ELSE "b2",
     openclaw_session_id |->
         IF i % 2 = 1 THEN << "a", "g", "e", "n", "t", ":", "a" >> \o << Digits[i + 1] >> \o << ":", "m", "a", "i", "n" >> ELSE None,
     agent_token_hash |-> hash, updated_at |-> 0]

MainRow(key, hash) ==
    [id |-> MainId, created_at |-> 0, name |-> << "M", "a", "i", "n" >>,
     board_id |-> "none", openclaw_session_id |-> key,
     agent_token_hash |-> hash, updated_at |-> 0]

ChatRow(b, at, content) ==
    [board_id |-> b, is_chat |-> TRUE, content |-> content, created_at |-> at]

\* Board b2 paused, or paused and resumed since.
Memories ==
    { << ChatRow("b2", 1, PauseCmd), ChatRow("b1", 2, << "h", "i" >>) >>,
      << ChatRow("b2", 1, PauseCmd), ChatRow("b2", 2, << " ", "/", "R", "e", "s", "u", "m", "e", " " >>) >> }

Url == << "w", "s", ":", "g" >>

CallArgsOf(gateway_id, url, include_main, rotate_tokens, board_id) ==
    [gateway_id |-> gateway_id, url |-> url, include_main |-> include_main,
     rotate_tokens |-> rotate_tokens, board_id |-> board_id]

\* A call for gateway g1, the gateway of the boards that have agents.
CallArgs(url, include_main, rotate_tokens, board_id) ==
    CallArgsOf("g1", url, include_main, rotate_tokens, board_id)

MainInSync ==
    [present |-> TRUE, sit |-> InSync, key |-> MainSessionKey, list |-> ListWithDefault]

MainAbsent ==
    [present |-> FALSE, sit |-> InSync, key |-> MainSessionKey, list |-> ListWithDefault]

BothInSync == [i \in AgentIds |-> InSync]

AgentSituations ==
    { f \in [AgentIds -> UNION { Situations(i) : i \in AgentIds }] :
        \A i \in AgentIds : f[i] \in Situations(i) }

\* The calls of the model and the worlds they meet: a gateway without a URL; a
\* board of another gateway; every situation of the board agents, without the
\* main agent; every world of the main agent, after the agent of board b1; and
\* all agents together; a rotation followed by a malformed stored hash; the
\* board whose agent has no session key alone, paused
\* or resumed; and gateway g2, whose board has no agents.
Scenarios ==
    { [a |-> CallArgs(None, TRUE, FALSE, "none"), sit |-> BothInSync,
       mw |-> MainInSync, memory |-> m] : m \in Memories }
    \cup { [a |-> CallArgs(Url, main, FALSE, "b3"), sit |-> BothInSync,
             mw |-> MainInSync, memory |-> m] : main \in BOOLEAN, m \in Memories }
    \cup { [a |-> CallArgs(Url, FALSE, r, "none"), sit |-> f,
             mw |-> MainInSync, memory |-> m] :
             r \in BOOLEAN, f \in AgentSituations, m \in Memories }
    \cup { [a |-> CallArgs(Url, TRUE, r, "b1"), sit |-> [BothInSync EXCEPT ![1] = s],
             mw |-> w, memory |-> m] :
             r \in BOOLEAN, s \in { InSync, Drifted }, w \in MainWorlds,
             m \in { x \in Memories : x[2].board_id = "b2" } }
    \cup { [a |-> CallArgs(Url, TRUE, r, "none"), sit |-> BothInSync,
             mw |-> MainInSync, memory |-> m] : r \in BOOLEAN, m \in Memories }
    \cup { [a |-> CallArgs(Url, FALSE, TRUE, "none"),
             sit |-> [BothInSync EXCEPT ![1] = Drifted, ![2] = Malformed],
             mw |-> MainInSync, memory |-> m] :
             m \in { x \in Memories : x[2].board_id = "b2" } }
    \cup { [a |-> CallArgs(Url, main, FALSE, "b2"), sit |-> BothInSync,
             mw |-> w, memory |-> m] :
             main \in BOOLEAN, w \in { MainInSync, MainAbsent }, m \in Memories }
    \cup { [a |-> CallArgsOf("g2", Url, main, FALSE, b), sit |-> BothInSync,
             mw |-> w, memory |-> m] :
             main \in BOOLEAN, b \in { "none", "b3" }, w \in { MainInSync, MainAbsent },
             m \in { x \in Memories : x[2].board_id = "b2" } }

InitWorld(sit, mw) ==
    /\ db = [i \in AgentIds \cup (IF mw.present THEN {MainId} ELSE {}) |->
                IF i = MainId THEN MainRow(mw.key, mw.sit.hash)
                ELSE AgentRow(i, sit[i].hash)]
    /\ gw_files = [gw \in GatewayIds |->
                     [g \in { GwId(AgentRow(i, None)) : i \in AgentIds } \cup { BareKey } |->
                         IF g = BareKey THEN mw.sit.doc
                         ELSE sit[CHOOSE i \in AgentIds : GwId(AgentRow(i, None)) = g].doc]]
    /\ gw_list = [gw \in GatewayIds |-> mw.list]

InitInvocation(p, a, key) ==
    /\ pc = [q \in {p} |-> "start"]
    /\ args = [q \in {p} |->
                 [gateway |-> [id |-> a.gateway_id, url |-> a.url, token |-> << "k" >>,
                               main_session_key |-> key],
                  include_main |-> a.include_main, rotate_tokens |-> a.rotate_tokens,
                  board_id |-> a.board_id]]
    /\ result = [q \in {p} |-> NewResult]
    /\ backoff = [q \in {p} |-> NewBackoff]
    /\ now = [q \in {p} |-> 0]
    /\ deadline_s = [q \in {p} |-> 0]
    /\ attempt = [q \in {p} |-> 0]
    /\ loc = [q \in {p} |->
                [boards |-> {}, paused |-> {}, agents |-> << >>, idx |-> 0,
                 gateway_agent_id |-> None, auth_token |-> None, main_agent |-> << >>]]
    /\ sess = [q \in {p} |-> << >>]
    /\ log = [q \in {p} |-> << >>]

Init ==
    \E sc \in Scenarios :
        /\ board_memory = sc.memory
        /\ InitWorld(sc.sit, sc.mw)
        /\ InitInvocation(1, sc.a, sc.mw.key)

(***************************************************************************)
(* sync_gateway_templates, one step per await                              *)
(***************************************************************************)
\* What a step of invocation p reads and may change.
Cur(p) ==
    [pc |-> pc[p], result |-> result[p], loc |-> loc[p], backoff |-> backoff[p],
     now |-> now[p], deadline_s |-> deadline_s[p], attempt |-> attempt[p],
     log |-> log[p], sess |-> sess[p], db |-> db, gw_files |-> FilesOf(p)]

Apply(p, n) ==
    /\ pc' = [pc EXCEPT ![p] = n.pc]
    /\ result' = [result EXCEPT ![p] = n.result]
    /\ loc' = [loc EXCEPT ![p] = n.loc]
    /\ backoff' = [backoff EXCEPT ![p] = n.backoff]
    /\ now' = [now EXCEPT ![p] = n.now]
    /\ deadline_s' = [deadline_s EXCEPT ![p] = n.deadline_s]
    /\ attempt' = [attempt EXCEPT ![p] = n.attempt]
    /\ log' = [log EXCEPT ![p] = n.log]
    /\ sess' = [sess EXCEPT ![p] = n.sess]
    /\ db' = n.db
    /\ gw_files' = [gw_files EXCEPT ![GatewayOf(p)] = n.gw_files]
    /\ UNCHANGED << board_memory, gw_list, args >>

Event(op, agent_id, token) == [op |-> op, agent |-> agent_id, token |-> token]

\* return result
Return_mut_goes_on(c, res) == [c EXCEPT !.result = res]

Return_mut_discards(c, res) ==
    [c EXCEPT !.pc = "done",
              !.result = IF res.errors # << >>
                            /\ res.errors[Len(res.errors)].message.kind = "timeout"
                         THEN [NewResult EXCEPT
                                  !.errors = << res.errors[Len(res.errors)] >>]
                         ELSE res]

Return(c, res) == [c EXCEPT !.pc = "done", !.result = res]

\* Entry of backoff.run(): the deadline is armed from the clock.
EnterRun_mut_armed_once(c) ==
    [c EXCEPT !.deadline_s = IF @ = 0 THEN ArmDeadline(c.backoff, c.now) ELSE @,
              !.attempt = 0]

EnterRun(c) ==
    [c EXCEPT !.deadline_s = ArmDeadline(c.backoff, c.now), !.attempt = 0]

\* One pass of the run() in progress around an attempt `at` of the call.
Pass(c, at, u) == BackoffPass(c.backoff, c.deadline_s, c.now, at, at.dur, u)

\* The clock and the driver after the pass; when the pass ended the run, how
\* it ended is noted: "return" (with what the caller got from it, where that
\* is a token), "raise" or "timeout".  Outside run() the clock is not read.
Passed(c, r, who, value) ==
    [c EXCEPT !.now = IF r.kind = "retry" THEN r.now ELSE 0,
              !.backoff.delay_s = r.delay_s,
              !.attempt = IF r.kind = "retry" THEN @ + 1 ELSE @,
              !.log = IF r.kind = "retry" THEN @
                      ELSE Append(@, Event(r.kind, who, value))]

\* The agent of the call in progress.
LoopAgent(p) == << loc[p].agents[loc[p].idx] >>

MayPass(c, r) == r.kind = "retry" => c.attempt < MaxRetries

\* .order_by(col(Agent.created_at).asc())
RECURSIVE SortByCreated_mut_newest_first(_, _), SortByCreated(_, _)
SortByCreated_mut_newest_first(rows, ids) ==
    IF ids = {} THEN << >>
    ELSE LET first == CHOOSE i \in ids :
                          \A j \in ids : rows[i].created_at >= rows[j].created_at
         IN  << first >> \o SortByCreated_mut_newest_first(rows, ids \ {first})

SortByCreated(rows, ids) ==
    IF ids = {} THEN << >>
    ELSE LET first == CHOOSE i \in ids :
                          \A j \in ids : rows[i].created_at <= rows[j].created_at
         IN  << first >> \o SortByCreated(rows, ids \ {first})

\* Agent.objects.by_field_in("board_id", board_ids), oldest first
AgentsOfBoards(rows, board_ids) ==
    SortByCreated(rows, { i \in DOMAIN rows : rows[i].board_id \in board_ids })

\* Lines 361-377: the agents passed over from index i on, up to the first one
\* that gets a token read (idx) or the end of the list (idx = Len + 1).
RECURSIVE SkipAgents_mut_reports(_, _, _, _), SkipAgents(_, _, _, _)
SkipAgents_mut_reports(l, rows, i, res) ==
    IF i > Len(l.agents) THEN [idx |-> i, result |-> res]
    ELSE LET agent == rows[l.agents[i]]
         IN  IF agent.board_id \notin l.boards \/ agent.board_id \in l.paused
             THEN SkipAgents_mut_reports(l, rows, i + 1,
                      AddError(Skipped(res),
                               SyncError(<< agent.id >>, agent.board_id,
                                         "board_not_found", << >>)))
             ELSE [idx |-> i, result |-> res]

SkipAgents(l, rows, i, res) ==
    IF i > Len(l.agents) THEN [idx |-> i, result |-> res]
    ELSE LET agent == rows[l.agents[i]]
         IN  IF agent.board_id \notin l.boards
             THEN SkipAgents(l, rows, i + 1,
                      AddError(Skipped(res),
                               SyncError(<< agent.id >>, agent.board_id,
                                         "board_not_found", << >>)))
             ELSE IF agent.board_id \in l.paused
             THEN SkipAgents(l, rows, i + 1, Skipped(res))
             ELSE [idx |-> i, result |-> res]

\* The agent loop from index i on, with result res: up to the await of the
\* next token read, or past the loop to the main agent or the return.
EnterLoop(c, a, i, res) ==
    LET s == SkipAgents(c.loc, c.sess, i, res)
    IN  IF s.idx <= Len(c.loc.agents)
        THEN LET agent == c.sess[c.loc.agents[s.idx]]
             IN  [EnterRun(c) EXCEPT
                     !.pc = "token", !.result = s.result,
                     !.loc = [@ EXCEPT !.idx = s.idx,
                                       !.gateway_agent_id = GwId(agent),
                                       !.auth_token = None],
                     !.log = Append(@, Event("read", << agent.id >>, None))]
        ELSE IF a.include_main
        THEN [c EXCEPT !.pc = "main_find", !.result = s.result, !.loc.idx = s.idx]
        ELSE [c EXCEPT !.pc = "done", !.result = s.result, !.loc.idx = s.idx]

\* Lines 305-320: the guard, the client configuration and the driver.
StartStep(c, a) ==
    IF a.gateway.url = None
    THEN Return(c, AddError(c.result, SyncError(<< >>, "none", "no_url", << >>)))
    ELSE [EnterRun([c EXCEPT !.backoff = NewBackoff]) EXCEPT
             !.pc = "ping", !.log = Append(@, Event("ping", << >>, None))]

Start(p) ==
    /\ pc[p] = "start"
    /\ Apply(p, StartStep(Cur(p), args[p]))

\* Lines 322-334: the reachability probe.
PingStep_mut_ignored(c, r, at) == IF r.kind = "retry" THEN c ELSE [c EXCEPT !.pc = "load"]

PingStep(c, r, at) ==
    IF r.kind = "retry" THEN c
    ELSE IF r.kind = "timeout"
    THEN Return(c, AddError(c.result, TimeoutEntry(<< >>, "none", at.exc)))
    ELSE IF r.kind = "raise"
    THEN Return(c, AddError(c.result,
                            SyncError(<< >>, "none", "gateway_error", at.exc.message)))
    ELSE [c EXCEPT !.pc = "load"]

Ping(p) ==
    /\ pc[p] = "ping"
    /\ \E at \in Attempts(GatewayErrors) : \E u \in Jitters(at) :
          LET r == Pass(Cur(p), at, u)
          IN  /\ MayPass(Cur(p), r)
              /\ Apply(p, PingStep(Passed(Cur(p), r, << >>, None), r, at))

\* Lines 336-361: the boards in scope, the paused ones, the agents, and the
\* loop up to its first token read.
LoadStep_mut_any_board(c, a, memory) ==
    LET boards == IF a.board_id # "none" THEN {a.board_id} ELSE BoardsOf(a.gateway)
        agents == AgentsOfBoards(c.db, boards)
    IN  EnterLoop([c EXCEPT !.loc.boards = boards,
                            !.loc.paused = _paused_board_ids(memory, boards),
                            !.loc.agents = agents,
                            !.sess = [i \in { agents[k] : k \in 1..Len(agents) } |-> c.db[i]]],
                  a, 1, c.result)

LoadStep(c, a, memory) ==
    LET owned == BoardsOf(a.gateway)
        boards == IF a.board_id # "none" THEN {a.board_id} ELSE owned
        agents == AgentsOfBoards(c.db, boards)
        loaded == [c EXCEPT !.loc.boards = boards,
                            !.loc.paused = _paused_board_ids(memory, boards),
                            !.loc.agents = agents,
                            !.sess = [i \in { agents[k] : k \in 1..Len(agents) } |-> c.db[i]]]
    IN  IF a.board_id # "none" /\ a.board_id \notin owned
        THEN Return(c, AddError(c.result,
                                SyncError(<< >>, a.board_id, "foreign_board", << >>)))
        ELSE EnterLoop(loaded, a, 1, c.result)

Load(p) ==
    /\ pc[p] = "load"
    /\ Apply(p, LoadStep(Cur(p), args[p], board_memory))

\* agent.updated_at = utcnow(); session.add(agent); commit; refresh: the row
\* and the loaded object get the new hash and timestamp.
Persist_mut_session_only(c, id, hash) ==
    [c EXCEPT !.sess[id].agent_token_hash = hash,
              !.sess[id].updated_at = utcnow(@)]

Persist(c, id, hash) ==
    [c EXCEPT !.db[id].agent_token_hash = hash,
              !.db[id].updated_at = utcnow(@),
              !.sess[id].agent_token_hash = hash,
              !.sess[id].updated_at = utcnow(@)]

TraceEvents(id, trace) ==
    [k \in 1..Len(trace) |-> Event(trace[k].op, << id >>, trace[k].token)]

\* The commits and the trace of a reconciliation, applied.
Reconciling(c, id, rec) ==
    [(IF rec.commits > 0 THEN Persist(c, id, rec.hash) ELSE c) EXCEPT
        !.log = @ \o TraceEvents(id, rec.trace)]

\* Lines 397-458 once the reconciliation of the fetched token gave rec.
TokenOutcome(c, a, id, rec) ==
    IF rec.kind = "skip"
    THEN EnterLoop(c, a, c.loc.idx + 1,
                   AddError(Skipped(c.result),
                            SyncError(<< id >>, c.sess[id].board_id, "no_token", << >>)))
    ELSE IF rec.kind = "raised"
    THEN [Reconciling(c, id, rec) EXCEPT !.pc = "raised"]
    ELSE [EnterRun(Reconciling(c, id, rec)) EXCEPT
             !.pc = "provision",
             !.result = IF rec.warn
                        THEN AddError(@, SyncError(<< id >>, c.sess[id].board_id,
                                                   "mismatch", << >>))
                        ELSE @,
             !.loc.auth_token = rec.token,
             !.log = @ \o << Event("provision", << id >>, rec.token) >>]

\* Lines 379-458 after the token read ended: `fetched` is what
\* _get_existing_auth_token returned (None after a gateway error).
TokenStep(c, a, r, at, fetched, d1, d2) ==
    LET id == c.loc.agents[c.loc.idx]
        agent == c.sess[id]
    IN  IF r.kind = "retry" THEN c
        ELSE IF r.kind = "timeout"
        THEN Return(c, AddError(c.result, TimeoutEntry(<< id >>, agent.board_id, at.exc)))
        ELSE TokenOutcome(c, a, id,
                 ReconcileAgentToken(agent.agent_token_hash, fetched,
                                     a.rotate_tokens, d1, d2))

\* _get_existing_auth_token around one pass of the agents.files.get call
FetchedToken(r, payload) ==
    IF r.kind = "return" THEN _get_existing_auth_token(_get_agent_file(payload))
    ELSE None

TokenRead(p) ==
    /\ pc[p] = "token"
    /\ \E at \in Attempts(GatewayErrors) :
         \E u \in Jitters(at), shape \in Shapes(at),
            d1 \in DrawsFor(args[p]), d2 \in DrawsFor(args[p]) :
          LET r == Pass(Cur(p), at, u)
              payload == FilePayload(shape, FilesOf(p)[loc[p].gateway_agent_id])
          IN  /\ MayPass(Cur(p), r)
              /\ Apply(p, TokenStep(Passed(Cur(p), r, LoopAgent(p),
                                           FetchedToken(r, payload)),
                                    args[p], r, at, FetchedToken(r, payload), d1, d2))

\* What provision_agent / provision_main_agent can raise.
ProvisionErrors == GatewayErrors

\* A successful provisioning writes the agent's files on the gateway, TOOLS.md
\* with the token it was given among them.
Provisioned(c, token) ==
    [c EXCEPT !.gw_files[c.loc.gateway_agent_id] = ToolsDoc(token)]

ProvisionStep_mut_rolls_back(c, a, r, at) ==
    LET id == c.loc.agents[c.loc.idx]
        agent == c.sess[id]
        undone == [c EXCEPT !.db[id].agent_token_hash = None,
                            !.sess[id].agent_token_hash = None]
    IN  IF r.kind = "retry" THEN c
        ELSE IF r.kind = "return"
        THEN EnterLoop(Provisioned(c, c.loc.auth_token), a, c.loc.idx + 1,
                       Updated(c.result))
        ELSE IF r.kind = "timeout"
        THEN Return(undone, AddError(Skipped(c.result),
                                     TimeoutEntry(<< id >>, agent.board_id, at.exc)))
        ELSE IF IsInstance(at.exc, SoftFailureClasses)
        THEN EnterLoop(undone, a, c.loc.idx + 1,
                       AddError(Skipped(c.result),
                                SyncError(<< id >>, agent.board_id,
                                          "provision_failed", at.exc.message)))
        ELSE [c EXCEPT !.pc = "raised"]

\* Lines 437-480 after one pass of the provisioning call.
ProvisionStep(c, a, r, at) ==
    LET id == c.loc.agents[c.loc.idx]
        agent == c.sess[id]
    IN  IF r.kind = "retry" THEN c
        ELSE IF r.kind = "return"
        THEN EnterLoop(Provisioned(c, c.loc.auth_token), a, c.loc.idx + 1,
                       Updated(c.result))
        ELSE IF r.kind = "timeout"
        THEN Return(c, AddError(Skipped(c.result),
                                TimeoutEntry(<< id >>, agent.board_id, at.exc)))
        ELSE IF IsInstance(at.exc, SoftFailureClasses)
        THEN EnterLoop(c, a, c.loc.idx + 1,
                       AddError(Skipped(c.result),
                                SyncError(<< id >>, agent.board_id,
                                          "provision_failed", at.exc.message)))
        ELSE [c EXCEPT !.pc = "raised"]

Provision(p) ==
    /\ pc[p] = "provision"
    /\ \E at \in Attempts(ProvisionErrors) : \E u \in Jitters(at) :
          LET r == Pass(Cur(p), at, u)
          IN  /\ MayPass(Cur(p), r)
              /\ Apply(p, ProvisionStep(Passed(Cur(p), r, LoopAgent(p), None),
                                        args[p], r, at))

\* Lines 482-501: the main agent's row, then the await of the agent listing.
MainFindStep_mut_starts_over(c, a) ==
    LET found == { i \in DOMAIN c.db :
                     c.db[i].openclaw_session_id = a.gateway.main_session_key }
        id == CHOOSE i \in found : \A j \in found : i <= j
    IN  IF found = {}
        THEN Return(c, AddError(NewResult,
                                SyncError(<< >>, "none", "main_not_found", << >>)))
        ELSE [EnterRun(c) EXCEPT
                 !.pc = "main_list",
                 !.loc.main_agent = << id >>,
                 !.sess = IF id \in DOMAIN c.sess THEN @
                          ELSE [i \in DOMAIN c.sess \cup {id} |->
                                   IF i = id THEN c.db[id] ELSE c.sess[i]],
                 !.log = Append(@, Event("list", << id >>, None))]

MainFindStep(c, a) ==
    LET found == { i \in DOMAIN c.db :
                     c.db[i].openclaw_session_id = a.gateway.main_session_key }
        id == CHOOSE i \in found : \A j \in found : i <= j
    IN  IF found = {}
        THEN Return(c, AddError(c.result,
                                SyncError(<< >>, "none", "main_not_found", << >>)))
        ELSE [EnterRun(c) EXCEPT
                 !.pc = "main_list",
                 !.loc.main_agent = << id >>,
                 !.sess = IF id \in DOMAIN c.sess THEN @
                          ELSE [i \in DOMAIN c.sess \cup {id} |->
                                   IF i = id THEN c.db[id] ELSE c.sess[i]],
                 !.log = Append(@, Event("list", << id >>, None))]

MainFind(p) ==
    /\ pc[p] = "main_find"
    /\ Apply(p, MainFindStep(Cur(p), args[p]))

\* _gateway_default_agent_id around one pass of the agents.list call
_gateway_default_agent_id(r, payload, fallback_session_key) ==
    IF r.kind = "return" /\ _extract_agent_id(payload) # None
    THEN _extract_agent_id(payload)
    ELSE _agent_id_from_session_key(fallback_session_key)

\* Lines 496-526 after one pass of the agents.list call.
MainListStep(c, a, r, at, payload) ==
    LET id == c.loc.main_agent[1]
        main_gateway_agent_id ==
            _gateway_default_agent_id(r, payload, a.gateway.main_session_key)
    IN  IF r.kind = "retry" THEN c
        ELSE IF r.kind = "timeout"
        THEN Return(c, AddError(c.result, TimeoutEntry(<< id >>, "none", at.exc)))
        ELSE IF main_gateway_agent_id = None
        THEN Return(c, AddError(c.result,
                                SyncError(<< id >>, "none", "main_unresolved", << >>)))
        ELSE [EnterRun(c) EXCEPT
                 !.pc = "main_token",
                 !.loc.gateway_agent_id = main_gateway_agent_id,
                 !.loc.auth_token = None,
                 !.log = Append(@, Event("read", << id >>, None))]

MainList(p) ==
    /\ pc[p] = "main_list"
    /\ \E at \in Attempts(GatewayErrors) : \E u \in Jitters(at) :
          LET r == Pass(Cur(p), at, u)
          IN  /\ MayPass(Cur(p), r)
              /\ Apply(p, MainListStep(Passed(Cur(p), r, loc[p].main_agent, None),
                                       args[p], r, at, gw_list[GatewayOf(p)]))

\* Lines 536-588 once the reconciliation of the fetched token gave rec.
MainTokenOutcome(c, id, rec) ==
    IF rec.kind = "skip"
    THEN Return(c, AddError(c.result,
                            SyncError(<< id >>, "none", "main_no_token", << >>)))
    ELSE IF rec.kind = "raised"
    THEN [Reconciling(c, id, rec) EXCEPT !.pc = "raised"]
    ELSE [EnterRun(Reconciling(c, id, rec)) EXCEPT
             !.pc = "main_provision",
             !.result = IF rec.warn
                        THEN AddError(@, SyncError(<< id >>, "none",
                                                   "main_mismatch", << >>))
                        ELSE @,
             !.loc.auth_token = rec.token,
             !.log = @ \o << Event("provision", << id >>, rec.token) >>]

\* Lines 521-588 after the main agent's token read ended.
MainTokenStep(c, a, r, at, fetched, d1, d2) ==
    LET id == c.loc.main_agent[1]
        agent == c.sess[id]
    IN  IF r.kind = "retry" THEN c
        ELSE IF r.kind = "timeout"
        THEN Return(c, AddError(c.result, TimeoutEntry(<< id >>, "none", at.exc)))
        ELSE MainTokenOutcome(c, id,
                 ReconcileMainToken(agent.agent_token_hash, fetched,
                                    a.rotate_tokens, d1, d2))

MainTokenRead(p) ==
    /\ pc[p] = "main_token"
    /\ \E at \in Attempts(GatewayErrors) :
         \E u \in Jitters(at), shape \in Shapes(at),
            d1 \in DrawsFor(args[p]), d2 \in DrawsFor(args[p]) :
          LET r == Pass(Cur(p), at, u)
              payload == FilePayload(shape,
                             IF loc[p].gateway_agent_id \in DOMAIN FilesOf(p)
                             THEN FilesOf(p)[loc[p].gateway_agent_id] ELSE << >>)
          IN  /\ MayPass(Cur(p), r)
              /\ Apply(p, MainTokenStep(Passed(Cur(p), r, loc[p].main_agent,
                                               FetchedToken(r, payload)),
                                        args[p], r, at, FetchedToken(r, payload), d1, d2))

\* Lines 575-608 after one pass of the main agent's provisioning call.
MainProvisionStep(c, a, r, at) ==
    LET id == c.loc.main_agent[1]
    IN  IF r.kind = "retry" THEN c
        ELSE IF r.kind = "return"
        THEN Return(Provisioned(c, c.loc.auth_token),
                    MainUpdated(c.result))
        ELSE IF r.kind = "timeout"
        THEN Return(c, AddError(c.result, TimeoutEntry(<< id >>, "none", at.exc)))
        ELSE IF IsInstance(at.exc, SoftFailureClasses)
        THEN Return(c, AddError(c.result,
                                SyncError(<< id >>, "none",
                                          "main_provision_failed", at.exc.message)))
        ELSE [c EXCEPT !.pc = "raised"]

MainProvision(p) ==
    /\ pc[p] = "main_provision"
    /\ \E at \in Attempts(ProvisionErrors) : \E u \in Jitters(at) :
          LET r == Pass(Cur(p), at, u)
          IN  /\ MayPass(Cur(p), r)
              /\ Apply(p, MainProvisionStep(Passed(Cur(p), r, loc[p].main_agent, None),
                                            args[p], r, at))

Next ==
    \/ \E p \in DOMAIN pc : Start(p)
    \/ \E p \in DOMAIN pc : Ping(p)
    \/ \E p \in DOMAIN pc : Load(p)
    \/ \E p \in DOMAIN pc : TokenRead(p)
    \/ \E p \in DOMAIN pc : Provision(p)
    \/ \E p \in DOMAIN pc : MainFind(p)
    \/ \E p \in DOMAIN pc : MainList(p)
    \/ \E p \in DOMAIN pc : MainTokenRead(p)
    \/ \E p \in DOMAIN pc : MainProvision(p)

Spec == Init /\ [][Next]_vars
(***************************************************************************)
(* The pause query on its own: every chat log of up to MaxRows entries, and *)
(* an invocation that has passed the probe and loads its boards.           *)
(***************************************************************************)
MaxRows == 3

PauseContents ==
    { PauseCmd, << " ", "/", "R", "e", "s", "u", "m", "e", " " >>, << "h", "i" >>,
      << "\t", "/", "p", "a", "u", "s", "e" >> }

\* Chat entries of every content, and commands recorded outside the chat.
PauseEntries ==
    [board_id : { "b1", "b2" }, is_chat : { TRUE }, content : PauseContents]
        \cup [board_id : { "b1", "b2" }, is_chat : { FALSE }, content : { PauseCmd }]

\* Rows in creation order.
PauseLogs ==
    UNION { { [k \in 1..n |-> [board_id |-> f[k].board_id, is_chat |-> f[k].is_chat,
                               content |-> f[k].content, created_at |-> k]] :
                f \in [1..n -> PauseEntries] } : n \in 0..MaxRows }

\* The probe has returned; the boards are about to be loaded.
InitPause ==
    /\ board_memory \in PauseLogs
    /\ InitWorld(BothInSync, MainInSync)
    /\ pc = [q \in {1} |-> "load"]
    /\ args = [q \in {1} |->
                 [gateway |-> [id |-> "g1", url |-> Url, token |-> << "k" >>,
                               main_session_key |-> MainSessionKey],
                  include_main |-> FALSE, rotate_tokens |-> FALSE, board_id |-> "none"]]
    /\ result = [q \in {1} |-> NewResult]
    /\ backoff = [q \in {1} |-> NewBackoff]
    /\ now = [q \in {1} |-> 0]
    /\ deadline_s = [q \in {1} |-> ArmDeadline(NewBackoff, 0)]
    /\ attempt = [q \in {1} |-> 0]
    /\ loc = [q \in {1} |->
                [boards |-> {}, paused |-> {}, agents |-> << >>, idx |-> 0,
                 gateway_agent_id |-> None, auth_token |-> None, main_agent |-> << >>]]
    /\ sess = [q \in {1} |-> << >>]
    /\ log = [q \in {1} |-> << Event("ping", << >>, None), Event("return", << >>, None) >>]

NextPause == \E p \in DOMAIN pc : Load(p)

SpecPause == InitPause /\ [][NextPause]_vars

(***************************************************************************)
(* _GatewayBackoff on its own: a driver and the run() calls made on it     *)
(***************************************************************************)
\* Bounds of the model: the timeout the driver under test is configured with
\* (milliseconds), and the run() calls made on it one after the other.
ShortTimeout == 2000

MaxRuns == 2

BackoffTimeouts == { 0, ShortTimeout }

\* loop.time() when the first run() is entered.
StartTimes == { 0, 300 }

\* The operations run() is given: one that raises a transient error at every
\* attempt, and one that may do anything at any attempt.
OpModes == { "failing", "free" }

OpSequences == UNION { [1..n -> OpModes] : n \in 1..MaxRuns }

\* How long an attempt takes: a moment, or as long as the whole timeout.
OpDurations(t) == { 1, t + 1 }

OpAttempts(mode, t) ==
    { [raised |-> TRUE, exc |-> ExcConnRefused, dur |-> d] : d \in OpDurations(t) }
    \cup (IF mode = "failing" THEN {}
          ELSE { [raised |-> FALSE, exc |-> NoExc, dur |-> d] : d \in OpDurations(t) }
               \cup { [raised |-> TRUE, exc |-> ExcUnsupported, dur |-> d] :
                         d \in OpDurations(t) })

\* What is noted of the calls: the entry of each run(), the last failure it
\* slept on, and how it ended, for the run in progress and the end of the one
\* before.  t is the clock at the entry or when the attempt ended, delay the
\* driver's delay at that moment, sleep the sleep that followed, n the
\* failures of the run slept on so far, exc what the attempt raised.
RunEvent(op, t, delay, sleep, n, exc) ==
    [op |-> op, t |-> t, delay |-> delay, sleep |-> sleep, n |-> n, exc |-> exc]

LastOf(events) == IF events = << >> THEN << >> ELSE << events[Len(events)] >>

WithoutRetry(events) ==
    IF events # << >> /\ events[Len(events)].op = "retry"
    THEN SubSeq(events, 1, Len(events) - 1)
    ELSE events

\* A new driver of one of the timeouts, and the operations of the run() calls
\* that will be made on it.
InitDriver(timeouts, sequences) ==
    /\ board_memory = << >>
    /\ InitWorld(BothInSync, MainInSync)
    /\ pc = [q \in {1} |-> "idle"]
    /\ args \in { [q \in {1} |-> [timeout |-> t, ops |-> o]] :
                    t \in timeouts, o \in sequences }
    /\ result = [q \in {1} |-> NewResult]
    /\ backoff = [q \in {1} |-> _GatewayBackoff(args[1].timeout)]
    /\ now \in { [q \in {1} |-> t] : t \in StartTimes }
    /\ deadline_s = [q \in {1} |-> 0]
    /\ attempt = [q \in {1} |-> 0]
    /\ loc = [q \in {1} |-> [run |-> 0]]
    /\ sess = [q \in {1} |-> << >>]
    /\ log = [q \in {1} |-> << >>]

InitBackoff == InitDriver(BackoffTimeouts, OpSequences)

\* await backoff.run(fn): the entry, line 97.
RunEnterStep(c) ==
    [EnterRun(c) EXCEPT
        !.pc = "run", !.loc.run = @ + 1,
        !.log = LastOf(@) \o << RunEvent("enter", c.now, c.backoff.delay_s, 0, 0, NoExc) >>]

RunEnter(p) ==
    /\ pc[p] = "idle"
    /\ loc[p].run < Len(args[p].ops)
    /\ Apply(p, RunEnterStep(Cur(p)))

\* Lines 98-117: one pass of the loop, r being what it came to.
RunAttemptStep(c, at, r) ==
    IF r.kind = "retry"
    THEN [c EXCEPT !.now = r.now, !.backoff.delay_s = r.delay_s, !.attempt = @ + 1,
                   !.log = WithoutRetry(@)
                           \o << RunEvent("retry", c.now + at.dur, c.backoff.delay_s,
                                          r.now - (c.now + at.dur), c.attempt + 1,
                                          at.exc) >>]
    ELSE [c EXCEPT !.now = r.now, !.backoff.delay_s = r.delay_s, !.pc = "idle",
                   !.log = Append(@, RunEvent(r.kind, c.now + at.dur, c.backoff.delay_s,
                                              0, c.attempt, at.exc))]

RunAttempt(p) ==
    /\ pc[p] = "run"
    /\ \E at \in OpAttempts(args[p].ops[loc[p].run], args[p].timeout) :
         \E u \in JitterDraws :
            /\ (args[p].ops[loc[p].run] = "free" /\ Pass(Cur(p), at, u).kind = "retry")
                   => attempt[p] < MaxRetries
            /\ Apply(p, RunAttemptStep(Cur(p), at, Pass(Cur(p), at, u)))

NextBackoff ==
    \/ \E p \in DOMAIN pc : RunEnter(p)
    \/ \E p \in DOMAIN pc : RunAttempt(p)

SpecBackoff == InitBackoff /\ [][NextBackoff]_vars

\* A timeout long enough for the delay to reach max_delay_s: the delays double
\* from 0.75 s to 24 s and are 30 s from the seventh failure on.
LongTimeout == 100000

InitLong == InitDriver({ LongTimeout }, { << "failing" >>, << "free", "failing" >> })

SpecBackoffLong == InitLong /\ [][NextBackoff]_vars

\* One run() of an operation that raises a transient error at every attempt.
InitFailing ==
    InitDriver(BackoffTimeouts \cup { 2 * ShortTimeout, 4 * ShortTimeout },
               { << "failing" >> })

\* The event loop runs what is ready: a run() in progress makes its next pass.
SpecBackoffLive ==
    InitFailing /\ [][NextBackoff]_vars /\ WF_vars(\E p \in { 1 } : RunAttempt(p))

(***************************************************************************)
(* Two invocations at once                                                 *)
(***************************************************************************)
\* Invocations 1..Len(calls), each about to start.
InitCalls(calls) ==
    /\ pc = [q \in DOMAIN calls |-> "start"]
    /\ args = [q \in DOMAIN calls |->
                 [gateway |-> [id |-> calls[q].gateway_id, url |-> calls[q].url,
                               token |-> << "k" >>,
                               main_session_key |-> MainSessionKey],
                  include_main |-> calls[q].include_main,
                  rotate_tokens |-> calls[q].rotate_tokens,
                  board_id |-> calls[q].board_id]]
    /\ result = [q \in DOMAIN calls |-> NewResult]
    /\ backoff = [q \in DOMAIN calls |-> NewBackoff]
    /\ now = [q \in DOMAIN calls |-> 0]
    /\ deadline_s = [q \in DOMAIN calls |-> 0]
    /\ attempt = [q \in DOMAIN calls |-> 0]
    /\ loc = [q \in DOMAIN calls |->
                [boards |-> {}, paused |-> {}, agents |-> << >>, idx |-> 0,
                 gateway_agent_id |-> None, auth_token |-> None, main_agent |-> << >>]]
    /\ sess = [q \in DOMAIN calls |-> << >>]
    /\ log = [q \in DOMAIN calls |-> << >>]

\* The agents table with the main agent's row, and for each gateway the
\* TOOLS.md it holds for the board agents and for the main agent.
InitStoresWith(stored_hash, main_docs, agent_doc) ==
    /\ db = [i \in AgentIds \cup { MainId } |->
                IF i = MainId THEN MainRow(MainSessionKey, stored_hash)
                ELSE AgentRow(i, stored_hash)]
    /\ gw_files = [gw \in GatewayIds |->
                     [g \in { GwId(AgentRow(i, None)) : i \in AgentIds } \cup { BareKey } |->
                         IF g = BareKey THEN main_docs[gw] ELSE agent_doc]]
    /\ gw_list = [gw \in GatewayIds |-> ListWithDefault]

InitStores(main_docs, agent_doc) == InitStoresWith(Hash1, main_docs, agent_doc)

\* Gateways g1 and g2 are synchronised at once, main agent included; both are
\* configured with the default main session key.  Gateway g1 holds another
\* token for the main agent than the stored hash is of and is synchronised
\* for its board b1; gateway g2's board has no agents.
InitTwoGateways ==
    \E r1 \in BOOLEAN, r2 \in BOOLEAN :
        /\ board_memory = << ChatRow("b2", 1, PauseCmd), ChatRow("b1", 2, << "h", "i" >>) >>
        /\ InitStores([gw \in GatewayIds |->
                          IF gw = "g1" THEN ToolsDoc(Token2) ELSE ToolsDoc(Token1)],
                      ToolsDoc(Token1))
        /\ InitCalls(<< CallArgsOf("g1", Url, TRUE, r1, "b1"),
                        CallArgsOf("g2", Url, TRUE, r2, "none") >>)

\* Every gateway call made so far was answered at once: none raised, timed
\* out or was retried.
Answered ==
    \A p \in DOMAIN pc :
        /\ attempt[p] = 0
        /\ \A k \in DOMAIN log[p] : log[p][k].op \notin { "raise", "timeout" }

\* The steps of the invocations, interleaved, while the gateways answer.
NextAnswered ==
    \/ \E p \in DOMAIN pc : Start(p) /\ Answered'
    \/ \E p \in DOMAIN pc : Ping(p) /\ Answered'
    \/ \E p \in DOMAIN pc : Load(p) /\ Answered'
    \/ \E p \in DOMAIN pc : TokenRead(p) /\ Answered'
    \/ \E p \in DOMAIN pc : Provision(p) /\ Answered'
    \/ \E p \in DOMAIN pc : MainFind(p) /\ Answered'
    \/ \E p \in DOMAIN pc : MainList(p) /\ Answered'
    \/ \E p \in DOMAIN pc : MainTokenRead(p) /\ Answered'
    \/ \E p \in DOMAIN pc : MainProvision(p) /\ Answered'

SpecTwoGateways == InitTwoGateways /\ [][NextAnswered]_vars

\* Gateway g1 is synchronised twice at once for board b1, with rotate_tokens,
\* one of the two with or without the main agent; the gateway holds for the board's agent the token of the stored hash,
\* another token, or none.
InitSameAgent ==
    \E doc \in { ToolsDoc(Token1), ToolsDoc(Token2), NoTokenDoc }, m \in BOOLEAN :
        /\ board_memory = << ChatRow("b2", 1, PauseCmd), ChatRow("b1", 2, << "h", "i" >>) >>
        /\ InitStores([gw \in GatewayIds |-> ToolsDoc(Token1)], doc)
        /\ InitCalls(<< CallArgsOf("g1", Url, m, TRUE, "b1"),
                        CallArgsOf("g1", Url, FALSE, TRUE, "b1") >>)

SpecSameAgent == InitSameAgent /\ [][NextAnswered]_vars

\* The agent of board b1 and the main agent start alike: the same stored hash
\* (a digest, none, or one with 0 iterations) and the same TOOLS.md on their
\* gateways.  Gateway g1 is synchronised for board b1 without the main agent,
\* gateway g2, whose board has no agents, with it.
InitTwins ==
    \E h \in { Hash1, None, ZeroIterHash },
       doc \in { ToolsDoc(Token1), ToolsDoc(Token2), NoTokenDoc },
       r \in BOOLEAN :
        /\ board_memory = << ChatRow("b2", 1, PauseCmd), ChatRow("b1", 2, << "h", "i" >>) >>
        /\ InitStoresWith(h, [gw \in GatewayIds |-> doc], doc)
        /\ InitCalls(<< CallArgsOf("g1", Url, FALSE, r, "b1"),
                        CallArgsOf("g2", Url, TRUE, r, "b3") >>)

SpecTwins == InitTwins /\ [][NextAnswered]_vars

(***************************************************************************)
(* What a run has done, read off its log                                   *)
(***************************************************************************)
Procs == DOMAIN pc

OutcomeOps == { "return", "raise", "timeout" }

\* The events that ended the calls `op` made for agent `who`.
Outcomes(p, op, who) ==
    { log[p][k + 1] : k \in { j \in 1..(Len(log[p]) - 1) :
                                /\ log[p][j].op = op
                                /\ log[p][j].agent = who
                                /\ log[p][j + 1].op \in OutcomeOps } }

Ended(p, op, who, how) == \E e \in Outcomes(p, op, who) : e.op = how

HasEvent(p, op, who) ==
    \E k \in DOMAIN log[p] : log[p][k].op = op /\ log[p][k].agent = who

EventsOf(p, op, who) ==
    { k \in DOMAIN log[p] : log[p][k].op = op /\ log[p][k].agent = who }

LoopAgents(p) == { loc[p].agents[k] : k \in DOMAIN loc[p].agents }

ErrorsOf(p, who) ==
    { k \in DOMAIN result[p].errors : result[p].errors[k].agent_id = who }

\* The agent loop is over and the main agent has not been looked for.
LoopOver(p) ==
    /\ loc[p].idx > Len(loc[p].agents)
    /\ pc[p] = "main_find" \/ (pc[p] = "done" /\ ~args[p].include_main)

\* The token read of agent i returned a token.
TokenReadable(p, i) ==
    \E e \in Outcomes(p, "read", << i >>) : e.op = "return" /\ e.token # None

\* No token could be read for agent i: the read returned none or failed.
TokenUnreadable(p, i) ==
    \E e \in Outcomes(p, "read", << i >>) : e.op \in { "return", "raise" } /\ e.token = None

\* The agents counted as skipped: passed over on a paused board, unreadable
\* without rotation, or provisioning failed or timed out.
SkippedAgents(p) ==
    { i \in LoopAgents(p) :
        \/ \E k \in 1..(loc[p].idx - 1) :
              k <= Len(loc[p].agents) /\ loc[p].agents[k] = i
              /\ sess[p][i].board_id \in loc[p].paused
        \/ TokenUnreadable(p, i) /\ ~args[p].rotate_tokens
        \/ Ended(p, "provision", << i >>, "raise")
        \/ Ended(p, "provision", << i >>, "timeout") }

UpdatedAgents(p) == { i \in LoopAgents(p) : Ended(p, "provision", << i >>, "return") }

\* C1's case: the loop is over, no agent was on a paused board, every token
\* read returned a token, and the provisioning of exactly one agent raised.
OneProvisioningFailed(p) ==
    /\ LoopOver(p)
    /\ LoopAgents(p) # {}
    /\ \A i \in LoopAgents(p) : sess[p][i].board_id \notin loc[p].paused
    /\ \A i \in LoopAgents(p) : TokenReadable(p, i)
    /\ Cardinality({ i \in LoopAgents(p) : Ended(p, "provision", << i >>, "raise") }) = 1

NoDrift(p) ==
    args[p].rotate_tokens \/ \A i \in LoopAgents(p) : ~HasEvent(p, "mismatch", << i >>)

IsolatedFailure(p) ==
    LET failing == CHOOSE i \in LoopAgents(p) : Ended(p, "provision", << i >>, "raise")
    IN  /\ \A i \in LoopAgents(p) \ {failing} : Ended(p, "provision", << i >>, "return")
        /\ result[p].agents_updated = Cardinality(LoopAgents(p)) - 1
        /\ result[p].agents_skipped = 1
        /\ Len(result[p].errors) = 1
        /\ result[p].errors[1].agent_id = << failing >>
        /\ result[p].errors[1].message.kind = "provision_failed"

\* C1 as stated: in a sync over N in-scope, unpaused agents whose tokens are
\* readable, if the provisioning of exactly one agent raises a fatal error, the
\* others are provisioned and the result has agents_updated = N-1,
\* agents_skipped = 1 and exactly one error entry, for the failing agent.
C1_AsStated == \A p \in Procs : OneProvisioningFailed(p) => IsolatedFailure(p)

\* C1, amended: the same, for agents whose readable tokens also verify against
\* their stored hashes (or are re-keyed under rotate_tokens): a token that does
\* not verify adds a warning entry of its own.  The counts and entries are
\* those at the end of the agent loop.
C1_PartialFailureIsolation ==
    \A p \in Procs : OneProvisioningFailed(p) /\ NoDrift(p) => IsolatedFailure(p)

C1_Witness ==
    \E p \in Procs :
        /\ OneProvisioningFailed(p) /\ NoDrift(p)
        /\ Cardinality(LoopAgents(p)) = 2
        /\ Ended(p, "provision", << 1 >>, "raise")
        /\ Ended(p, "provision", << 2 >>, "return")

\* C2: once the deadline expires during a loop agent's token read or
\* provisioning, the run has returned: the timeout is the last thing that
\* happened (no later agent is read or provisioned, the main agent is not
\* reconciled), main_updated is false, and the last error entry is the timeout,
\* attributed to that agent.
C2_TimeoutAborts ==
    \A p \in Procs : \A k \in DOMAIN log[p] :
        (log[p][k].op = "timeout" /\ log[p][k].agent # << >>
            /\ log[p][k].agent[1] \in LoopAgents(p))
        => /\ k = Len(log[p])
           /\ pc[p] = "done"
           /\ ~result[p].main_updated
           /\ ~\E j \in DOMAIN log[p] : log[p][j].agent = << MainId >>
           /\ result[p].errors # << >>
           /\ result[p].errors[Len(result[p].errors)].agent_id = log[p][k].agent
           /\ result[p].errors[Len(result[p].errors)].message.kind = "timeout"

C2_Witness ==
    \E p \in Procs :
        /\ args[p].include_main
        /\ Cardinality(LoopAgents(p)) = 2
        /\ 2 \notin SkippedAgents(p) \cup UpdatedAgents(p)
        /\ Ended(p, "provision", << 1 >>, "timeout")

\* C3 as stated: sync_gateway_templates never raises.
C3_NeverRaises == \A p \in Procs : pc[p] # "raised"

\* Every loop agent's reconciliation ended in a soft failure.
AllSoftFailed(p) ==
    /\ loc[p].idx > Len(loc[p].agents)
    /\ LoopAgents(p) # {}
    /\ \A i \in LoopAgents(p) :
          \/ TokenUnreadable(p, i) /\ ~args[p].rotate_tokens
          \/ HasEvent(p, "mismatch", << i >>) /\ ~args[p].rotate_tokens
          \/ Ended(p, "provision", << i >>, "raise")

MainPhaseKinds ==
    { "main_not_found", "main_unresolved", "main_no_token", "main_mismatch",
      "main_provision_failed", "timeout" }

\* C4: with include_main, when every per-agent reconciliation ended in a soft
\* failure the run does not end before the main agent is looked for, and when
\* the main agent's provisioning succeeds main_updated is true and the
\* per-agent errors are still in the result.
C4_MainIndependence ==
    \A p \in Procs :
        (args[p].include_main /\ AllSoftFailed(p))
        => /\ pc[p] \in { "main_find", "main_list", "main_token", "main_provision", "done" }
           /\ pc[p] = "done" =>
                 \/ result[p].main_updated
                 \/ /\ result[p].errors # << >>
                    /\ result[p].errors[Len(result[p].errors)].message.kind \in MainPhaseKinds
                    /\ result[p].errors[Len(result[p].errors)].agent_id
                           \in { << >>, << MainId >> }
           /\ Ended(p, "provision", << MainId >>, "return")
                 => /\ result[p].main_updated
                    /\ \A i \in LoopAgents(p) : ErrorsOf(p, << i >>) # {}

C4_Witness ==
    \E p \in Procs :
        /\ args[p].include_main /\ AllSoftFailed(p)
        /\ Cardinality(LoopAgents(p)) = 2
        /\ Ended(p, "provision", << MainId >>, "return")
        /\ result[p].main_updated
        /\ result[p].agents_updated = 0

\* The documented format: pbkdf2_sha256$<iterations>$<salt>$<digest>, salt and
\* digest in unpadded URL-safe base64 of 16 and 32 bytes.
IsDigestFormat(h) ==
    LET f == Split(h, "$")
    IN  /\ Len(f) = 4
        /\ f[1] = AlgorithmTag
        /\ f[2] = IntToStr(ITERATIONS)
        /\ Len(f[3]) = 22 /\ \A k \in 1..Len(f[3]) : IsB64Char(f[3][k])
        /\ Len(f[4]) = 43 /\ \A k \in 1..Len(f[4]) : IsB64Char(f[4][k])

\* The stored values of the model that have the documented format, computed
\* once.
DigestHashes == { h \in ModelHashes : IsDigestFormat(h) }

IsDigest(h) == IF h \in ModelHashes THEN h \in DigestHashes ELSE IsDigestFormat(h)

\* C5: no stored agent_token_hash is a raw token, and every hash a run has
\* stored is a digest of the documented format, made from the token the run
\* generated for that agent.
C5_StoredHashIsDigest ==
    \A i \in DOMAIN db :
        /\ db[i].agent_token_hash \notin RawTokens
        /\ db[i].updated_at > 0 =>
              /\ IsDigest(db[i].agent_token_hash)
              /\ \E p \in Procs : \E k \in EventsOf(p, "rotate", << i >>) :
                    /\ log[p][k].token \in GeneratedTokens
                    /\ Verify(log[p][k].token, db[i].agent_token_hash) = "True"

C5_Witness ==
    \E p \in Procs : \E i \in LoopAgents(p) :
        /\ db[i].updated_at > 0
        /\ db[i].agent_token_hash # Hash1
        /\ IsDigestFormat(db[i].agent_token_hash)
        /\ Ended(p, "provision", << i >>, "return")

\* C6: when no AUTH_TOKEN can be read for a loop agent: without rotate_tokens
\* it is counted as skipped, has exactly one error entry and no token is
\* generated for it nor is it provisioned; with rotate_tokens a token is
\* generated, the stored hash is the digest of that token, and that token is
\* the one its provisioning call gets.
C6_UnreadableToken ==
    \A p \in Procs : \A i \in LoopAgents(p) :
        TokenUnreadable(p, i) =>
            IF ~args[p].rotate_tokens
            THEN /\ result[p].agents_skipped = Cardinality(SkippedAgents(p))
                 /\ Cardinality(ErrorsOf(p, << i >>)) = 1
                 /\ \A k \in ErrorsOf(p, << i >>) :
                        result[p].errors[k].message.kind = "no_token"
                 /\ ~HasEvent(p, "rotate", << i >>)
                 /\ ~HasEvent(p, "provision", << i >>)
                 /\ db[i].updated_at = 0
            ELSE /\ Cardinality(EventsOf(p, "rotate", << i >>)) = 1
                 /\ Cardinality(EventsOf(p, "provision", << i >>)) = 1
                 /\ \A k \in EventsOf(p, "rotate", << i >>) :
                        /\ log[p][k].token \in GeneratedTokens
                        /\ Verify(log[p][k].token, db[i].agent_token_hash) = "True"
                        /\ \A j \in EventsOf(p, "provision", << i >>) :
                               j > k /\ log[p][j].token = log[p][k].token

C6_Witness ==
    \E p \in Procs : \E i \in LoopAgents(p) :
        /\ TokenUnreadable(p, i)
        /\ args[p].rotate_tokens
        /\ Ended(p, "provision", << i >>, "return")
        /\ FilesOf(p)[GwId(db[i])] = ToolsDoc(<< "t", "4" >>)

\* C7: when the token read for a loop agent does not verify against its stored
\* hash: without rotate_tokens the provisioning call gets the fetched token,
\* the agent is counted as updated when that call succeeds, and the result has
\* exactly one warning entry for it; with rotate_tokens a token is generated,
\* the stored hash is its digest, the provisioning call gets the new token and
\* the result has no warning entry for the agent.
C7_TokenMismatch ==
    \A p \in Procs : \A i \in LoopAgents(p) : \A k \in EventsOf(p, "mismatch", << i >>) :
        LET warnings == { e \in ErrorsOf(p, << i >>) :
                            result[p].errors[e].message.kind = "mismatch" }
        IN  IF ~args[p].rotate_tokens
            THEN /\ log[p][k + 1] = Event("provision", << i >>, log[p][k].token)
                 /\ log[p][k].token # None
                 /\ Cardinality(warnings) = 1
                 /\ db[i].updated_at = 0
                 /\ Ended(p, "provision", << i >>, "return") =>
                        /\ result[p].agents_updated = Cardinality(UpdatedAgents(p))
                        /\ result[p].agents_updated >= 1
            ELSE /\ log[p][k + 1].op = "rotate"
                 /\ log[p][k + 1].token \in GeneratedTokens
                 /\ log[p][k + 1].token # log[p][k].token
                 /\ Verify(log[p][k + 1].token, db[i].agent_token_hash) = "True"
                 /\ log[p][k + 2] = Event("provision", << i >>, log[p][k + 1].token)
                 /\ warnings = {}

C7_Witness ==
    \E p \in Procs : \E i \in LoopAgents(p) :
        /\ HasEvent(p, "mismatch", << i >>)
        /\ ~args[p].rotate_tokens
        /\ Ended(p, "provision", << i >>, "return")
        /\ FilesOf(p)[GwId(db[i])] = ToolsDoc(Token2)
        /\ Len(result[p].errors) = 1

\* The reachability probe ended in a fatal error or in deadline expiry.
ProbeFailed(p) ==
    /\ Len(log[p]) >= 2
    /\ log[p][1].op = "ping"
    /\ log[p][2].op \in { "raise", "timeout" }

\* C8: when the probe ends in a fatal gateway error or in deadline expiry, the
\* run has returned with exactly one error entry, which carries no agent id,
\* with zero counts and main_updated false, and no token has been read, rotated
\* or provisioned.
C8_ProbeFailure ==
    \A p \in Procs :
        ProbeFailed(p) =>
            /\ pc[p] = "done"
            /\ Len(result[p].errors) = 1
            /\ result[p].errors[1].agent_id = << >>
            /\ result[p].errors[1].message.kind =
                   (IF log[p][2].op = "timeout" THEN "timeout" ELSE "gateway_error")
            /\ result[p].agents_updated = 0
            /\ result[p].agents_skipped = 0
            /\ ~result[p].main_updated
            /\ Len(log[p]) = 2
            /\ \A i \in DOMAIN db : db[i].updated_at = 0

C8_Witness ==
    \E p \in Procs :
        /\ ProbeFailed(p)
        /\ log[p][2].op = "timeout"
        /\ attempt[p] = 1
        /\ args[p].include_main

NoUrl(p) == args[p].gateway.url = None

ForeignBoard(p) ==
    args[p].board_id # "none" /\ args[p].board_id \notin BoardsOf(args[p].gateway)

\* The run ended in the one configuration error `kind` and did nothing else.
ConfigError(p, kind) ==
    /\ pc[p] = "done"
    /\ Len(result[p].errors) = 1
    /\ result[p].errors[1].message.kind = kind
    /\ result[p].errors[1].agent_id = << >>
    /\ result[p].agents_updated = 0
    /\ result[p].agents_skipped = 0
    /\ ~result[p].main_updated
    /\ \A k \in DOMAIN log[p] : log[p][k].agent = << >> /\ log[p][k].op # "list"
    /\ \A i \in DOMAIN db : db[i].updated_at = 0

\* C9, amended: without a URL the run ends at once in one configuration error
\* and makes no gateway call; for a board the gateway does not own, once the
\* reachability probe has returned the run ends in one configuration error for
\* that board, with zero counts, main_updated false and no agent or main agent
\* processed; the probe is the one gateway call made, and it runs under backoff
\* like every other.
C9_ConfigurationErrors ==
    \A p \in Procs :
        /\ (NoUrl(p) /\ pc[p] # "start") =>
               ConfigError(p, "no_url") /\ log[p] = << >> /\ attempt[p] = 0
        /\ (~NoUrl(p) /\ ForeignBoard(p) /\ pc[p] \notin { "start", "ping", "load" }
                /\ ~ProbeFailed(p)) =>
               /\ ConfigError(p, "foreign_board")
               /\ result[p].errors[1].board_id = args[p].board_id
               /\ Len(log[p]) = 2

\* C9 as stated: in addition, no gateway call was retried under backoff on the
\* way to the configuration error.
C9_AsStated ==
    \A p \in Procs :
        (pc[p] = "done" /\ (ConfigError(p, "no_url") \/ ConfigError(p, "foreign_board")))
        => attempt[p] = 0

C9_Witness ==
    \E p \in Procs :
        /\ ForeignBoard(p)
        /\ args[p].include_main
        /\ ConfigError(p, "foreign_board")
        /\ attempt[p] = 1

\* The chat entries of board b that are commands, by position: the content
\* with the blanks at its ends trimmed and in lower case is a command.
CommandsOf(memory, b) ==
    { k \in DOMAIN memory :
        /\ memory[k].board_id = b
        /\ memory[k].is_chat
        /\ Lower(SqlTrim(memory[k].content)) \in { PauseCmd, ResumeCmd } }

LastCommandIsPause(memory, b) ==
    /\ CommandsOf(memory, b) # {}
    /\ \E k \in CommandsOf(memory, b) :
          /\ \A j \in CommandsOf(memory, b) : j <= k
          /\ Lower(SqlTrim(memory[k].content)) = PauseCmd

\* C10: a board is paused iff the most recent chat entry on it whose trimmed,
\* lower-cased content is /pause or /resume is /pause; other entries, non-chat
\* entries and earlier commands do not matter.
C10_PausePrecedence ==
    \A p \in Procs :
        pc[p] # "load" =>
            /\ loc[p].boards = { "b1", "b2" }
            /\ \A b \in loc[p].boards :
                   b \in loc[p].paused <=> LastCommandIsPause(board_memory, b)

C10_Witness ==
    \E p \in Procs :
        /\ pc[p] # "load"
        /\ Len(board_memory) = 3
        /\ \A k \in 1..3 : board_memory[k].board_id = "b1" /\ board_memory[k].is_chat
        /\ Lower(SqlTrim(board_memory[1].content)) = ResumeCmd
        /\ board_memory[2].content = PauseCmd
        /\ board_memory[3].content = << "h", "i" >>
        /\ loc[p].paused = { "b1" }
        /\ result[p].agents_skipped = 1

\* The loop agents of a board whose last command is /pause that the loop has
\* gone past.
PausedPassed(p) ==
    { i \in LoopAgents(p) :
        /\ \E k \in 1..(loc[p].idx - 1) : k <= Len(loc[p].agents) /\ loc[p].agents[k] = i
        /\ LastCommandIsPause(board_memory, db[i].board_id) }

\* C11: an agent of a paused board is passed over silently, whatever
\* rotate_tokens is: it is counted in agents_skipped once, has no error entry,
\* no gateway call is made and no token is generated for it, and its row is
\* not written.
C11_PausedSkippedSilently ==
    \A p \in Procs :
        /\ \A i \in LoopAgents(p) :
              LastCommandIsPause(board_memory, db[i].board_id) =>
                  /\ ErrorsOf(p, << i >>) = {}
                  /\ \A k \in DOMAIN log[p] : log[p][k].agent # << i >>
                  /\ db[i].updated_at = 0
                  /\ db[i].agent_token_hash = Hash1
        /\ result[p].agents_skipped =
               Cardinality(PausedPassed(p)
                           \cup { i \in LoopAgents(p) :
                                    \/ TokenUnreadable(p, i) /\ ~args[p].rotate_tokens
                                    \/ Ended(p, "provision", << i >>, "raise")
                                    \/ Ended(p, "provision", << i >>, "timeout") })

C11_Witness ==
    \E p \in Procs :
        /\ args[p].rotate_tokens
        /\ pc[p] = "done"
        /\ PausedPassed(p) = { 2 }
        /\ UpdatedAgents(p) = { 1 }
        /\ result[p].agents_skipped = 1
        /\ result[p].errors = << >>

\* ---- the run() calls on one driver ----
\* The entry of the run() in progress or made last, and what has been noted of
\* that run since.
RunEntry == CHOOSE k \in DOMAIN log[1] : log[1][k].op = "enter"

EnteredAt == log[1][RunEntry].t

SinceEntry == { k \in DOMAIN log[1] : k > RunEntry }

RunMode == args[1].ops[loc[1].run]

RunEnded(how) ==
    /\ loc[1].run > 0
    /\ pc[1] = "idle"
    /\ log[1][Len(log[1])].op = how

\* TimeoutError is raised only at a failed attempt that ended at or after the
\* deadline, entry + timeout; a failure before it is slept on, and no sleep
\* goes past the deadline.
TimeoutOnlyAtDeadline ==
    loc[1].run > 0 =>
        \A k \in SinceEntry :
            /\ log[1][k].op = "timeout" =>
                  /\ log[1][k].t >= EnteredAt + args[1].timeout
                  /\ log[1][k].exc = ExcConnRefused
            /\ log[1][k].op = "retry" =>
                  /\ log[1][k].t < EnteredAt + args[1].timeout
                  /\ log[1][k].t + log[1][k].sleep <= EnteredAt + args[1].timeout
                  /\ k = Len(log[1]) => now[1] = log[1][k].t + log[1][k].sleep

\* C12: run() of an operation that raises a transient error at every attempt
\* eventually raises TimeoutError; it raises it only at a failed attempt
\* observed at or after the deadline (entry + timeout), never while time
\* remains.
C12_BackoffTermination ==
    /\ []TimeoutOnlyAtDeadline
    /\ (pc[1] = "run" /\ RunMode = "failing") ~> RunEnded("timeout")

C12_Witness ==
    /\ RunEnded("timeout")
    /\ RunMode = "failing"
    /\ args[1].timeout = ShortTimeout
    /\ log[1][Len(log[1])].n >= 3
    /\ log[1][Len(log[1])].t = EnteredAt + args[1].timeout + 1

\* C13: an attempt that raises a fatal gateway error ends run() with that
\* error, whether the deadline has passed or not: the clock is where the
\* attempt ended (no sleep) and no further attempt is made.
C13_FatalPropagates ==
    loc[1].run > 0 =>
        /\ \A k \in SinceEntry :
              log[1][k].exc = ExcUnsupported =>
                  /\ log[1][k].op = "raise"
                  /\ k = Len(log[1])
                  /\ pc[1] = "idle"
                  /\ now[1] = log[1][k].t
                  /\ attempt[1] = log[1][k].n
        /\ RunEnded("raise") => log[1][Len(log[1])].exc = ExcUnsupported

C13_Witness ==
    /\ RunEnded("raise")
    /\ args[1].timeout = ShortTimeout
    /\ log[1][Len(log[1])].n = 1
    /\ log[1][Len(log[1])].t > EnteredAt + args[1].timeout

\* The run() before the current one ended as `how` after n sleeps, and the
\* current one has failed once and slept `delay` (before jitter and clipping).
NextRunSleptFrom(how, n, delay) ==
    /\ loc[1].run > 1
    /\ RunEntry > 1
    /\ log[1][RunEntry - 1].op = how
    /\ log[1][RunEntry - 1].n = n
    /\ log[1][Len(log[1])].op = "retry"
    /\ log[1][Len(log[1])].n = 1
    /\ log[1][Len(log[1])].delay = delay

\* C14: the delay is reset to the base delay by a run() that returns, and by
\* nothing else: the run() after a success sleeps from the base delay, the
\* run() after a fatal error or a timeout sleeps from the escalated delay the
\* ended run() left behind.
C14_ResetOnlyBySuccess ==
    loc[1].run > 0 =>
        /\ RunEntry > 1 =>
              /\ log[1][RunEntry - 1].op = "return"
                    => log[1][RunEntry].delay = base_delay_s
              /\ log[1][RunEntry - 1].op \in { "raise", "timeout" } =>
                    /\ log[1][RunEntry].delay = log[1][RunEntry - 1].delay
                    /\ log[1][RunEntry - 1].n >= 1
                          => log[1][RunEntry].delay > base_delay_s
        /\ \A k \in SinceEntry :
              log[1][k].op = "retry" =>
                  /\ log[1][k].n = 1 => log[1][k].delay = log[1][RunEntry].delay
                  /\ log[1][k].sleep \in
                        { SleepFor(log[1][k].delay,
                                   EnteredAt + args[1].timeout - log[1][k].t, u) :
                              u \in JitterDraws }
        /\ RunEnded("return") => backoff[1].delay_s = base_delay_s
        /\ (RunEnded("raise") \/ RunEnded("timeout"))
              => backoff[1].delay_s = log[1][Len(log[1])].delay

C14_Witness ==
    /\ NextRunSleptFrom("return", 1, base_delay_s)
    /\ log[1][Len(log[1])].sleep > 0

C14_EscalatedKept ==
    \/ NextRunSleptFrom("raise", 1, 2 * base_delay_s)
    \/ NextRunSleptFrom("timeout", 1, 2 * base_delay_s)

(***************************************************************************)
(* The classifier on its own: exceptions of several classes and messages   *)
(***************************************************************************)
UpperChar(c) ==
    IF IsLower(c) THEN UpperCase[CHOOSE i \in 1..26 : LowerCase[i] = c] ELSE c

\* str.upper() and str.capitalize(), to write messages in other letter cases
Upper(s) == [i \in 1..Len(s) |-> UpperChar(s[i])]

Capitalize(s) == [i \in 1..Len(s) |-> IF i = 1 THEN UpperChar(s[i]) ELSE s[i]]

ExceptionClasses ==
    { "OpenClawGatewayError", "RuntimeError", "OSError", "TimeoutError", "ValueError" }

MessageCores ==
    _TRANSIENT_GATEWAY_ERROR_MARKERS \cup _NON_TRANSIENT_GATEWAY_ERROR_MARKERS
        \cup { << >>,
                 << "5", "0", "3" >>,
                 << "w", "e", "b", "s", "o", "c", "k", "e", "t" >>,
                 << "b", "a", "d", " ", "r", "e", "q", "u", "e", "s", "t" >>,
                 << "a", "g", "e", "n", "t", " ", "n", "o", "t", " ", "f", "o", "u", "n", "d" >> }

MessagePrefixes ==
    { << >>,
      << "u", "n", "s", "u", "p", "p", "o", "r", "t", "e", "d", " ", "f", "i", "l", "e", " ", "t", "y", "p", "e", ":", " ", ".", "b", "i", "n", " " >>,
      << "w", "e", "b", "s", "o", "c", "k", "e", "t", " ", "c", "l", "o", "s", "e", "d", ",", " ", "s", "t", "a", "t", "u", "s", " ", "5", "0", "3", ":", " " >>,
      << "e", "r", "r", "o", "r", ":", " " >> }

Messages ==
    UNION { { pre \o core, Upper(pre \o core), Capitalize(pre) \o Capitalize(core) } :
              pre \in MessagePrefixes, core \in MessageCores }

Exceptions == { [cls |-> cls, message |-> m] : cls \in ExceptionClasses, m \in Messages }

InitClassify ==
    /\ board_memory = << >>
    /\ InitWorld(BothInSync, MainInSync)
    /\ pc = [q \in {1} |-> "raised"]
    /\ args \in { [q \in {1} |-> [exc |-> e]] : e \in Exceptions }
    /\ result = [q \in {1} |-> NewResult]
    /\ backoff = [q \in {1} |-> NewBackoff]
    /\ now = [q \in {1} |-> 0]
    /\ deadline_s = [q \in {1} |-> 0]
    /\ attempt = [q \in {1} |-> 0]
    /\ loc = [q \in {1} |-> [transient |-> FALSE]]
    /\ sess = [q \in {1} |-> << >>]
    /\ log = [q \in {1} |-> << >>]

ClassifyStep(c, exc) ==
    [c EXCEPT !.pc = "classified", !.loc.transient = _is_transient_gateway_error(exc)]

Classify(p) ==
    /\ pc[p] = "raised"
    /\ Apply(p, ClassifyStep(Cur(p), args[p].exc))

NextClassify == \E p \in DOMAIN pc : Classify(p)

SpecClassify == InitClassify /\ [][NextClassify]_vars

(***************************************************************************)
(* verify_agent_token on stored values of every shape                      *)
(***************************************************************************)
Garbage == << "g", "a", "r", "b", "a", "g", "e" >>

UnknownTagHash ==
    Join(<< << "u", "n", "k", "n", "o", "w", "n" >>, << "1" >>, << "a", "a" >>, << "b", "b" >> >>, "$")

NotAnIntHash ==
    Join(<< AlgorithmTag, << "n", "o", "t", "a", "n", "i", "n", "t" >>,
            << "a", "a" >>, << "b", "b" >> >>, "$")

FiveFieldHash == HashOf(Token1, SaltOf(7)) \o << "$", "x" >>

OneCharSaltHash == Join(<< AlgorithmTag, << "1" >>, << "a" >>, << "b", "b" >> >>, "$")

MalformedHashes ==
    { None, Garbage, UnknownTagHash, NotAnIntHash, FiveFieldHash, ZeroIterHash,
      OneCharSaltHash }

GenuineHashes == { HashOf(Token1, SaltOf(7)), HashOf(Token2, SaltOf(200)) }

\* The positions of the salt and digest segments of a four-field digest.
SegmentPositions(h) ==
    { k \in 1..Len(h) :
        /\ h[k] # "$"
        /\ Cardinality({ j \in 1..(k - 1) : h[j] = "$" }) >= 2 }

\* The characters put in place of c: the next one of the alphabet, the one
\* half the alphabet away, and one outside the alphabet.
Replacements(c) ==
    { B64Char((B64Value(c) + 1) % 64), B64Char((B64Value(c) + 32) % 64), "!" }

Altered(h, k, c) == [h EXCEPT ![k] = c]

TamperedHashes(h) ==
    UNION { { Altered(h, k, c) : c \in Replacements(h[k]) } : k \in SegmentPositions(h) }

VerifyInputs ==
    { [token |-> t, stored_hash |-> h, genuine |-> None] :
        t \in { Token1, Token2 }, h \in MalformedHashes \cup GenuineHashes }
    \cup UNION { { [token |-> Token1, stored_hash |-> x, genuine |-> h] :
                     x \in TamperedHashes(h) } : h \in GenuineHashes }

InitVerify ==
    /\ board_memory = << >>
    /\ InitWorld(BothInSync, MainInSync)
    /\ pc = [q \in {1} |-> "stored"]
    /\ args \in { [q \in {1} |-> a] : a \in VerifyInputs }
    /\ result = [q \in {1} |-> NewResult]
    /\ backoff = [q \in {1} |-> NewBackoff]
    /\ now = [q \in {1} |-> 0]
    /\ deadline_s = [q \in {1} |-> 0]
    /\ attempt = [q \in {1} |-> 0]
    /\ loc = [q \in {1} |-> [outcome |-> "none"]]
    /\ sess = [q \in {1} |-> << >>]
    /\ log = [q \in {1} |-> << >>]

VerifyStep(c, token, stored_hash) ==
    [c EXCEPT !.pc = "verified",
              !.loc.outcome = verify_agent_token(token, stored_hash)]

VerifyCall(p) ==
    /\ pc[p] = "stored"
    /\ Apply(p, VerifyStep(Cur(p), args[p].token, args[p].stored_hash))

NextVerify == \E p \in DOMAIN pc : VerifyCall(p)

SpecVerify == InitVerify /\ [][NextVerify]_vars

(***************************************************************************)
(* Heartbeats: backend/app/api/agents.py                                   *)
(***************************************************************************)
MaxRequests == 2

AGENT_SESSION_PREFIX == << "a", "g", "e", "n", "t" >>

_build_session_key(agent_name, uuid) ==
    AGENT_SESSION_PREFIX \o << ":" >> \o _slugify(agent_name, uuid)
        \o << ":", "m", "a", "i", "n" >>

AdaName == << "A", "d", "a", " ", "1" >>

DashName == << "-", "-" >>

HeartbeatNames == { AdaName, DashName, << "B", "o" >> }

\* uuid4().hex as _slugify may draw it.
Uuids == { Uuid, << "b", "e", "e", "f" >> }

Busy == << "b", "u", "s", "y" >>

Online == << "o", "n", "l", "i", "n", "e" >>

\* A session key given by create_agent or by hand, not by a heartbeat.
GivenKey == << "a", "g", "e", "n", "t", ":", "x", ":", "m", "a", "i", "n" >>

BeatRow(i, name, key, status) ==
    [id |-> i, name |-> name, openclaw_session_id |-> key, status |-> status,
     last_seen_at |-> 0]

\* The agents table before the requests, in order of insertion.
HeartbeatTables ==
    { << >>,
      << BeatRow(1, AdaName, None, Online) >>,
      << BeatRow(1, AdaName, GivenKey, Online) >>,
      << BeatRow(1, DashName, None, Online), BeatRow(2, AdaName, GivenKey, Online) >> }

HeartbeatRequests ==
    { [op |-> "heartbeat", agent_id |-> i, status |-> st] :
        i \in { 1, 2, 9 }, st \in { None, Busy } }
    \cup { [op |-> "heartbeat_or_create", name |-> n, status |-> st] :
             n \in HeartbeatNames, st \in { None, Busy } }

\* The tail of both handlers: status, last_seen_at and updated_at are set and
\* committed.
Beat(table, i, status) ==
    [table EXCEPT ![i].status = IF status # None THEN status ELSE @,
                  ![i].last_seen_at = 1]

\* heartbeat_agent: the whole handler.
HeartbeatAgentStep(table, req) ==
    IF req.agent_id \notin DOMAIN table
    THEN [db |-> table, pc |-> "raised", loc |-> [agent |-> 0]]
    ELSE [db |-> Beat(table, req.agent_id, req.status), pc |-> "done",
          loc |-> [agent |-> req.agent_id]]

\* heartbeat_or_create_agent up to its first await: the first agent of that
\* name; an agent found with a session key goes straight to the tail.
WithName(table, name) == { i \in DOMAIN table : table[i].name = name }

FindStep_mut_never_found(table, req) ==
    [db |-> table, pc |-> "ensure", loc |-> [agent |-> 0]]

FindStep(table, req) ==
    LET found == WithName(table, req.name)
        agent == IF found = {} THEN 0 ELSE CHOOSE i \in found : \A j \in found : i <= j
    IN  IF agent = 0 \/ table[agent].openclaw_session_id = None
        THEN [db |-> table, pc |-> "ensure", loc |-> [agent |-> agent]]
        ELSE [db |-> Beat(table, agent, req.status), pc |-> "done",
              loc |-> [agent |-> agent]]

\* _ensure_gateway_session has returned (with or without a session error) or
\* openclaw_call raised another exception: the key is assigned and committed,
\* for a new agent together with its row.
EnsureStep_mut_rekeys(table, l, req, outcome, uuid) ==
    IF outcome = "raise" THEN [db |-> table, pc |-> "raised", loc |-> l]
    ELSE [db |-> [i \in DOMAIN table |->
                    [table[i] EXCEPT !.openclaw_session_id =
                                         _build_session_key(table[i].name, uuid)]],
          pc |-> "provisioning", loc |-> l]

EnsureStep(table, l, req, outcome, uuid) ==
    IF outcome = "raise" THEN [db |-> table, pc |-> "raised", loc |-> l]
    ELSE IF l.agent = 0
    THEN LET i == Len(table) + 1
         IN  [db |-> Append(table,
                            BeatRow(i, req.name, _build_session_key(req.name, uuid),
                                    IF req.status # None THEN req.status ELSE Online)),
              pc |-> "provisioning", loc |-> [agent |-> i]]
    ELSE [db |-> [table EXCEPT ![l.agent].openclaw_session_id =
                                   _build_session_key(table[l.agent].name, uuid)],
          pc |-> "provisioning", loc |-> l]

\* send_provisioning_message has returned or raised (every Exception is
\* caught); the tail follows.
FinishStep(table, l, req) ==
    [db |-> Beat(table, l.agent, req.status), pc |-> "done", loc |-> l]

InitHeartbeat ==
    /\ db \in HeartbeatTables
    /\ board_memory = << >>
    /\ gw_files = << >>
    /\ gw_list = << >>
    /\ pc = [q \in 1..MaxRequests |-> "idle"]
    /\ args = [q \in 1..MaxRequests |-> [op |-> "none"]]
    /\ result = [q \in 1..MaxRequests |-> NewResult]
    /\ backoff = [q \in 1..MaxRequests |-> NewBackoff]
    /\ now = [q \in 1..MaxRequests |-> 0]
    /\ deadline_s = [q \in 1..MaxRequests |-> 0]
    /\ attempt = [q \in 1..MaxRequests |-> 0]
    /\ loc = [q \in 1..MaxRequests |-> [agent |-> 0]]
    /\ sess = [q \in 1..MaxRequests |-> << >>]
    /\ log = [q \in 1..MaxRequests |-> << >>]

HeartbeatFrame ==
    UNCHANGED << board_memory, gw_files, gw_list, result, backoff, now,
                 deadline_s, attempt, sess, log >>

Took(p, req, n) ==
    /\ db' = n.db
    /\ pc' = [pc EXCEPT ![p] = n.pc]
    /\ loc' = [loc EXCEPT ![p] = n.loc]
    /\ args' = [args EXCEPT ![p] = req]
    /\ HeartbeatFrame

InFlight == { q \in DOMAIN pc : pc[q] \in { "ensure", "provisioning" } }

\* Requests are taken in order, one after the other has left.
MayStart(p) ==
    /\ pc[p] = "idle"
    /\ \A q \in 1..(p - 1) : pc[q] # "idle"
    /\ InFlight = {}

HeartbeatAgent(p) ==
    /\ MayStart(p)
    /\ \E req \in HeartbeatRequests :
          /\ req.op = "heartbeat"
          /\ Took(p, req, HeartbeatAgentStep(db, req))

HeartbeatOrCreateFind(p) ==
    /\ MayStart(p)
    /\ \E req \in HeartbeatRequests :
          /\ req.op = "heartbeat_or_create"
          /\ Took(p, req, FindStep(db, req))

HeartbeatOrCreateEnsure(p) ==
    /\ pc[p] = "ensure"
    /\ \E outcome \in { "return", "session_error", "raise" }, uuid \in Uuids :
          Took(p, args[p], EnsureStep(db, loc[p], args[p], outcome, uuid))

HeartbeatOrCreateFinish(p) ==
    /\ pc[p] = "provisioning"
    /\ Took(p, args[p], FinishStep(db, loc[p], args[p]))

NextHeartbeat ==
    \/ \E p \in DOMAIN pc : HeartbeatAgent(p)
    \/ \E p \in DOMAIN pc : HeartbeatOrCreateFind(p)
    \/ \E p \in DOMAIN pc : HeartbeatOrCreateEnsure(p)
    \/ \E p \in DOMAIN pc : HeartbeatOrCreateFinish(p)

SpecHeartbeat == InitHeartbeat /\ [][NextHeartbeat]_vars

(***************************************************************************)
(* Mentions: app.services.mentions, as the tests and the claim describe it *)
(***************************************************************************)
LeadMention == << "l", "e", "a", "d" >>

\* str.split()[0] of a stripped, non-empty name.
FirstWord(name) == Split(name, " ")[1]

matches_agent_mention_mut_any_word(agent, mentions) ==
    \/ agent.is_board_lead /\ LeadMention \in mentions
    \/ \E w \in DOMAIN Split(Lower(Strip(agent.name)), " ") :
          Split(Lower(Strip(agent.name)), " ")[w] \in mentions \ { LeadMention }

matches_agent_mention(agent, mentions) ==
    IF mentions = {} THEN FALSE
    ELSE IF agent.is_board_lead /\ LeadMention \in mentions THEN TRUE
    ELSE LET name == Lower(Strip(agent.name))
         IN  IF name = << >> THEN FALSE
             ELSE FirstWord(name) \in mentions \ { LeadMention }

Alice == << "a", "l", "i", "c", "e" >>

Cooper == << "c", "o", "o", "p", "e", "r" >>

Riya == << "r", "i", "y", "a" >>

MentionTokens == { Alice, Cooper, Riya, LeadMention }

MentionedNames ==
    { << "A", "l", "i", "c", "e", " ", "C", "o", "o", "p", "e", "r" >>,
      << "R", "i", "y", "a" >>,
      << "L", "e", "a", "d" >>,
      << "C", "o", "o", "p", "e", "r", " ", "L", "e", "a", "d" >>,
      << >> }

InitMentions ==
    /\ board_memory = << >>
    /\ InitWorld(BothInSync, MainInSync)
    /\ pc = [q \in {1} |-> "posted"]
    /\ args \in { [q \in {1} |-> [agent |-> [name |-> n, is_board_lead |-> l],
                                  mentions |-> m]] :
                    n \in MentionedNames, l \in BOOLEAN, m \in SUBSET MentionTokens }
    /\ result = [q \in {1} |-> NewResult]
    /\ backoff = [q \in {1} |-> NewBackoff]
    /\ now = [q \in {1} |-> 0]
    /\ deadline_s = [q \in {1} |-> 0]
    /\ attempt = [q \in {1} |-> 0]
    /\ loc = [q \in {1} |-> [matched |-> FALSE]]
    /\ sess = [q \in {1} |-> << >>]
    /\ log = [q \in {1} |-> << >>]

MatchStep(c, agent, mentions) ==
    [c EXCEPT !.pc = "matched", !.loc.matched = matches_agent_mention(agent, mentions)]

Match(p) ==
    /\ pc[p] = "posted"
    /\ Apply(p, MatchStep(Cur(p), args[p].agent, args[p].mentions))

NextMentions == \E p \in DOMAIN pc : Match(p)

SpecMentions == InitMentions /\ [][NextMentions]_vars

HasMarker(message, markers) == \E marker \in markers : Contains(message, marker)

ConnectionRefused == << "c", "o", "n", "n", "e", "c", "t", "i", "o", "n", " ", "r", "e", "f", "u", "s", "e", "d" >>

UnsupportedBin == << "u", "n", "s", "u", "p", "p", "o", "r", "t", "e", "d", " ", "f", "i", "l", "e", " ", "t", "y", "p", "e", ":", " ", ".", "b", "i", "n", " " >>

\* C15: an error is classified transient iff it is a gateway adapter error,
\* its lower-cased message is non-empty, holds no non-transient marker, and
\* holds a transient marker or both "503" and "websocket".  "Connection
\* refused" in any letter case is transient; a message that starts
\* "unsupported file type: .bin" never is, whatever follows; an error of
\* another class never is.
C15_TransientClassification ==
    pc[1] = "classified" =>
        /\ loc[1].transient
              <=> /\ args[1].exc.cls = "OpenClawGatewayError"
                  /\ Lower(args[1].exc.message) # << >>
                  /\ ~HasMarker(Lower(args[1].exc.message),
                                _NON_TRANSIENT_GATEWAY_ERROR_MARKERS)
                  /\ \/ HasMarker(Lower(args[1].exc.message),
                                  _TRANSIENT_GATEWAY_ERROR_MARKERS)
                     \/ /\ Contains(Lower(args[1].exc.message), << "5", "0", "3" >>)
                        /\ Contains(Lower(args[1].exc.message),
                                    << "w", "e", "b", "s", "o", "c", "k", "e", "t" >>)
        /\ (/\ args[1].exc.cls = "OpenClawGatewayError"
            /\ Lower(args[1].exc.message) = ConnectionRefused) => loc[1].transient
        /\ StartsWith(Lower(args[1].exc.message), UnsupportedBin) => ~loc[1].transient
        /\ args[1].exc.cls # "OpenClawGatewayError" => ~loc[1].transient

C15_Witness ==
    /\ pc[1] = "classified"
    /\ args[1].exc.cls = "OpenClawGatewayError"
    /\ args[1].exc.message = Upper(ConnectionRefused)
    /\ loc[1].transient

C15_UnsupportedWithTimeout ==
    /\ pc[1] = "classified"
    /\ args[1].exc.cls = "OpenClawGatewayError"
    /\ args[1].exc.message = UnsupportedBin \o << "t", "i", "m", "e", "o", "u", "t" >>
    /\ ~loc[1].transient

\* C16: every run() arms its own deadline, a full timeout after its entry:
\* a transient failure is retried whenever less than the timeout has passed
\* since this run() was entered, and times out only after it, however much
\* time the run() before spent retrying.
C16_DeadlineRearmed ==
    loc[1].run > 0 =>
        /\ pc[1] = "run" => deadline_s[1] = EnteredAt + args[1].timeout
        /\ \A k \in SinceEntry :
              /\ log[1][k].op = "timeout" => log[1][k].t >= EnteredAt + args[1].timeout
              /\ (/\ log[1][k].exc = ExcConnRefused
                  /\ log[1][k].t < EnteredAt + args[1].timeout) => log[1][k].op = "retry"

C16_Witness ==
    /\ loc[1].run > 1
    /\ RunEntry > 1
    /\ log[1][RunEntry - 1].op = "timeout"
    /\ log[1][RunEntry - 1].n >= 1
    /\ args[1].timeout = ShortTimeout
    /\ log[1][Len(log[1])].op = "retry"
    /\ log[1][Len(log[1])].sleep > 0
    /\ deadline_s[1] = log[1][RunEntry - 1].t + ShortTimeout

\* The deadline expired during the token read or the provisioning of loop
\* agent i, which was not the first agent of the loop.
TimedOutAfterOthers(p, i) ==
    /\ pc[p] = "done"
    /\ i \in LoopAgents(p)
    /\ loc[p].idx > 1
    /\ loc[p].idx <= Len(loc[p].agents)
    /\ loc[p].agents[loc[p].idx] = i
    /\ Ended(p, "read", << i >>, "timeout") \/ Ended(p, "provision", << i >>, "timeout")

\* The error entries the agent loop has appended for the agents before a
\* timeout: one per unreadable token and one per token mismatch when tokens are
\* not rotated, one per failed provisioning.
LoopErrorCount(p) ==
    Cardinality({ i \in LoopAgents(p) : TokenUnreadable(p, i) /\ ~args[p].rotate_tokens })
    + Cardinality({ i \in LoopAgents(p) :
                      HasEvent(p, "mismatch", << i >>) /\ ~args[p].rotate_tokens })
    + Cardinality({ i \in LoopAgents(p) : Ended(p, "provision", << i >>, "raise") })

\* C17 as stated: when a timeout aborts a sync after earlier agents were
\* processed, the result carries none of their counts or error entries, only
\* the timeout.
C17_AsStated ==
    \A p \in Procs : \A i \in LoopAgents(p) :
        TimedOutAfterOthers(p, i)
        => /\ result[p].agents_updated = 0
           /\ result[p].agents_skipped <= 1
           /\ Len(result[p].errors) = 1
           /\ result[p].errors[1].message.kind = "timeout"

\* C17, amended: when a timeout aborts a sync after earlier agents were
\* processed, the result returned is the accumulated one: agents_updated and
\* agents_skipped count the earlier agents (and the agent whose provisioning
\* timed out as skipped), the earlier agents' error entries are kept, and the
\* timeout is appended as the last entry.
C17_TimeoutKeepsPartialResult ==
    \A p \in Procs : \A i \in LoopAgents(p) :
        TimedOutAfterOthers(p, i)
        => /\ result[p].agents_updated = Cardinality(UpdatedAgents(p))
           /\ result[p].agents_skipped = Cardinality(SkippedAgents(p))
           /\ Len(result[p].errors) = LoopErrorCount(p) + 1
           /\ result[p].errors[Len(result[p].errors)].message.kind = "timeout"
           /\ result[p].errors[Len(result[p].errors)].agent_id = << i >>
           /\ \A j \in LoopAgents(p) \ { i } :
                 (j \in SkippedAgents(p) /\ sess[p][j].board_id \notin loc[p].paused)
                 => \E k \in ErrorsOf(p, << j >>) : k < Len(result[p].errors)

C17_Witness ==
    \E p \in Procs :
        /\ TimedOutAfterOthers(p, 2)
        /\ Ended(p, "read", << 2 >>, "timeout")
        /\ Ended(p, "provision", << 1 >>, "raise")
        /\ result[p].agents_updated = 0
        /\ result[p].agents_skipped = 1
        /\ Len(result[p].errors) = 2
        /\ result[p].errors[1].agent_id = << 1 >>
        /\ result[p].errors[1].message.kind = "provision_failed"

C17_UpdatedThenTimeout ==
    \E p \in Procs :
        /\ TimedOutAfterOthers(p, 2)
        /\ Ended(p, "provision", << 2 >>, "timeout")
        /\ Ended(p, "provision", << 1 >>, "return")
        /\ result[p].agents_updated = 1
        /\ result[p].agents_skipped = 1

\* The gateway has a URL and answered the probe, the board asked for is its
\* own, and the agents have been loaded: none is in scope, or every board in
\* scope is paused.
NothingToReconcile(p) ==
    /\ pc[p] \notin { "start", "ping", "load" }
    /\ ~NoUrl(p) /\ ~ForeignBoard(p) /\ ~ProbeFailed(p)
    /\ \/ LoopAgents(p) = {}
       \/ loc[p].boards # {} /\ loc[p].boards \subseteq loc[p].paused

\* C18 as stated: a sync with an empty in-scope agent set, or with every
\* in-scope board paused, returns agents_updated = 0 and no errors.
C18_AsStated ==
    \A p \in Procs :
        (NothingToReconcile(p) /\ pc[p] = "done")
        => result[p].agents_updated = 0 /\ result[p].errors = << >>

\* C18, amended: in such a sync the agent loop updates nothing and reports
\* nothing: agents_updated = 0, no gateway call is made for a loop agent, and
\* every error entry is one of the main-agent phase, so that without
\* include_main the error list is empty.
C18_EmptyOrPausedIsNoError ==
    \A p \in Procs :
        NothingToReconcile(p)
        => /\ result[p].agents_updated = 0
           /\ result[p].agents_skipped = Cardinality(LoopAgents(p))
           /\ \A k \in DOMAIN log[p] : log[p][k].agent \in { << >>, << MainId >> }
           /\ \A k \in DOMAIN result[p].errors :
                 /\ args[p].include_main
                 /\ result[p].errors[k].agent_id \in { << >>, << MainId >> }
                 /\ result[p].errors[k].message.kind \in MainPhaseKinds
           /\ ~args[p].include_main => pc[p] = "done" /\ result[p].errors = << >>

C18_Witness ==
    \E p \in Procs :
        /\ NothingToReconcile(p)
        /\ pc[p] = "done"
        /\ ~args[p].include_main
        /\ loc[p].boards = { "b2" }
        /\ loc[p].paused = { "b2" }
        /\ LoopAgents(p) = { 2 }
        /\ result[p].agents_skipped = 1
        /\ result[p].errors = << >>

C18_EmptySet ==
    \E p \in Procs :
        /\ NothingToReconcile(p)
        /\ pc[p] = "done"
        /\ loc[p].boards = { "b3" }
        /\ LoopAgents(p) = {}
        /\ result[p].main_updated
        /\ result[p] = [NewResult EXCEPT !.main_updated = TRUE]

C18_MainPhaseError ==
    \E p \in Procs :
        /\ NothingToReconcile(p)
        /\ pc[p] = "done"
        /\ LoopAgents(p) = {}
        /\ Len(result[p].errors) = 1
        /\ result[p].errors[1].message.kind = "main_not_found"

\* include_main is set, no agent record has the gateway's main session key,
\* and the run has returned after its agent loop ran to the end.
MainRecordMissing(p) ==
    /\ args[p].include_main
    /\ \A i \in DOMAIN db : db[i].openclaw_session_id # args[p].gateway.main_session_key
    /\ pc[p] = "done"
    /\ loc[p].idx > Len(loc[p].agents)

\* C19: when the main agent record is missing only the main phase is
\* abandoned: one entry without an agent id is appended, main_updated is
\* false, no gateway call is made for the main agent, and the counts and the
\* entries of the agent loop are returned as the loop left them.
C19_MainNotFoundKeepsLoopResult ==
    \A p \in Procs :
        MainRecordMissing(p)
        => /\ ~result[p].main_updated
           /\ loc[p].main_agent = << >>
           /\ \A k \in DOMAIN log[p] :
                 /\ log[p][k].op # "list"
                 /\ log[p][k].agent # << >> => log[p][k].agent[1] \in LoopAgents(p)
           /\ result[p].agents_updated = Cardinality(UpdatedAgents(p))
           /\ result[p].agents_skipped = Cardinality(SkippedAgents(p))
           /\ Len(result[p].errors) = LoopErrorCount(p) + 1
           /\ result[p].errors[Len(result[p].errors)]
                  = SyncError(<< >>, "none", "main_not_found", << >>)
           /\ \A k \in 1..(Len(result[p].errors) - 1) :
                 /\ result[p].errors[k].agent_id # << >>
                 /\ result[p].errors[k].agent_id[1] \in LoopAgents(p)

C19_Witness ==
    \E p \in Procs :
        /\ MainRecordMissing(p)
        /\ HasEvent(p, "mismatch", << 1 >>)
        /\ Ended(p, "provision", << 1 >>, "return")
        /\ result[p].agents_updated = 1
        /\ Len(result[p].errors) = 2
        /\ result[p].errors[1].agent_id = << 1 >>
        /\ result[p].errors[2].message.kind = "main_not_found"

\* The place of agent i in the order the run reconciles agents in: the loop
\* agents in loop order, then the main agent.
PlaceOf(p, i) ==
    IF i \in LoopAgents(p)
    THEN CHOOSE k \in DOMAIN loc[p].agents : loc[p].agents[k] = i
    ELSE Len(loc[p].agents) + 1

\* C20: a rotation is committed when it is made: from the rotation on, in
\* every state of the run (so also if the run then returns on a timeout or
\* raises), the stored hash of the agent is a digest, of the token generated
\* last for it; the rotation comes before the agent's provisioning call and
\* before anything is done for a later agent.
C20_RotationCommittedAtOnce ==
    \A p \in Procs : \A k \in DOMAIN log[p] :
        log[p][k].op = "rotate" =>
            /\ db[log[p][k].agent[1]].updated_at > 0
            /\ db[log[p][k].agent[1]].agent_token_hash \notin RawTokens
            /\ IsDigest(db[log[p][k].agent[1]].agent_token_hash)
            /\ (\A j \in EventsOf(p, "rotate", log[p][k].agent) : j <= k)
                  => Verify(log[p][k].token,
                            db[log[p][k].agent[1]].agent_token_hash) = "True"
            /\ \A j \in EventsOf(p, "provision", log[p][k].agent) : j > k
            /\ \A j \in DOMAIN log[p] :
                  (/\ log[p][j].agent # << >>
                   /\ PlaceOf(p, log[p][j].agent[1]) > PlaceOf(p, log[p][k].agent[1]))
                  => j > k

C20_Witness ==
    \E p \in Procs :
        /\ pc[p] = "done"
        /\ HasEvent(p, "rotate", << 1 >>)
        /\ Ended(p, "provision", << 1 >>, "return")
        /\ Ended(p, "read", << 2 >>, "timeout")
        /\ db[1].updated_at > 0
        /\ db[1].agent_token_hash # Hash1

C20_RotatedThenRaised ==
    \E p \in Procs :
        /\ pc[p] = "raised"
        /\ HasEvent(p, "rotate", << 1 >>)
        /\ Ended(p, "read", << 2 >>, "return")
        /\ db[1].updated_at > 0

C20_RotatedThenProvisioningTimedOut ==
    \E p \in Procs :
        /\ pc[p] = "done"
        /\ HasEvent(p, "rotate", << 1 >>)
        /\ Ended(p, "provision", << 1 >>, "timeout")
        /\ db[1].updated_at > 0

\* The agent records invocation p has rotated the token of or provisioned.
RecordsOf(p) ==
    { log[p][k].agent[1] :
        k \in { j \in DOMAIN log[p] : log[p][j].op \in { "rotate", "provision" } } }

\* Invocation p has returned, every gateway call it made was answered, the
\* token it read for the main agent is the one the stored hash was made of
\* when the run began, and it provisioned the main agent.
CleanMainRun(p) ==
    /\ pc[p] = "done"
    /\ \A k \in DOMAIN log[p] : log[p][k].op \notin { "raise", "timeout" }
    /\ \E e \in Outcomes(p, "read", << MainId >>) : e.op = "return" /\ e.token = Token1
    /\ Ended(p, "provision", << MainId >>, "return")
    /\ LoopAgents(p) = {}

\* C21: two invocations for different gateways never rotate or provision the
\* same agent record, and each returns what it returns when run alone: the
\* invocation for gateway g2, whose main agent's token verifies and which
\* has no board agents, returns main_updated and neither counts nor errors.
C21_IndependentGateways ==
    /\ \A p \in Procs : \A q \in Procs \ { p } : RecordsOf(p) \cap RecordsOf(q) = {}
    /\ \A p \in Procs :
          CleanMainRun(p) => result[p] = [NewResult EXCEPT !.main_updated = TRUE]

\* The result of an invocation that ran alone.
C21_AloneResult ==
    \A p \in Procs :
        CleanMainRun(p) => result[p] = [NewResult EXCEPT !.main_updated = TRUE]

C21_SharedMainAgent ==
    /\ pc[1] = "done" /\ pc[2] = "done"
    /\ MainId \in RecordsOf(1) \cap RecordsOf(2)
    /\ HasEvent(1, "rotate", << MainId >>)
    /\ CleanMainRun(2)
    /\ Len(result[2].errors) = 1

\* The token the gateway of invocation p holds for agent i.
DeliveredToken(p, i) == _parse_tools_md_get(FilesOf(p)[GwId(db[i])], AuthTokenKey)

\* Both invocations rotate tokens, have returned, and have counted agent i
\* as updated.
BothUpdated(i) ==
    \A p \in Procs :
        /\ args[p].rotate_tokens
        /\ pc[p] = "done"
        /\ i \in UpdatedAgents(p)
        /\ result[p].agents_updated = 1

\* C22: once two invocations with rotate_tokens that both processed an agent
\* have finished and counted it as updated, the agent's stored hash verifies
\* the token the gateway was given last.
C22_NoLostRotation ==
    \A i \in AgentIds :
        BothUpdated(i) =>
            Verify(DeliveredToken(1, i), db[i].agent_token_hash) = "True"

C22_CrossedRotation ==
    /\ BothUpdated(1)
    /\ HasEvent(1, "rotate", << 1 >>)
    /\ HasEvent(2, "rotate", << 1 >>)
    /\ DeliveredToken(1, 1) \in GeneratedTokens
    /\ Verify(DeliveredToken(1, 1), db[1].agent_token_hash) = "False"

\* The agents the loop of invocation p has reached so far.
ReachedAgents(p) ==
    { loc[p].agents[k] : k \in { j \in DOMAIN loc[p].agents : j <= loc[p].idx } }

\* C23: each in-scope agent is counted at most once, as updated or as skipped
\* and never as both; the two counters together never exceed the number of
\* agents the loop has reached, and add up to the number of in-scope agents
\* when the loop has run to completion.
C23_AtMostOneOutcome ==
    \A p \in Procs :
        /\ UpdatedAgents(p) \cap SkippedAgents(p) = {}
        /\ result[p].agents_updated = Cardinality(UpdatedAgents(p))
        /\ result[p].agents_skipped = Cardinality(SkippedAgents(p))
        /\ UpdatedAgents(p) \cup SkippedAgents(p) \subseteq ReachedAgents(p)
        /\ result[p].agents_updated + result[p].agents_skipped
              <= Cardinality(ReachedAgents(p))
        /\ LoopOver(p) =>
              result[p].agents_updated + result[p].agents_skipped
                 = Cardinality(LoopAgents(p))

C23_Witness ==
    \E p \in Procs :
        /\ LoopOver(p)
        /\ UpdatedAgents(p) # {}
        /\ SkippedAgents(p) # {}
        /\ result[p].agents_updated + result[p].agents_skipped = 2

C23_MidLoop ==
    \E p \in Procs :
        /\ pc[p] = "provision"
        /\ result[p].agents_updated = 1
        /\ Cardinality(ReachedAgents(p)) = 2

\* The fields of the stored value verify_agent_token was called with.
StoredFields(p) == Split(args[p].stored_hash, "$")

\* C24: verify_agent_token returns a boolean and never raises; it returns
\* false when the stored value does not have exactly four "$"-separated
\* fields, when the algorithm tag is not pbkdf2_sha256, when the iteration
\* field is not an integer, and when a character of the salt or digest
\* segment of a digest has been altered.
C24_FailsClosed ==
    pc[1] = "verified" =>
        /\ loc[1].outcome \in { "True", "False" }
        /\ Len(StoredFields(1)) # 4 => loc[1].outcome = "False"
        /\ StoredFields(1)[1] # AlgorithmTag => loc[1].outcome = "False"
        /\ (Len(StoredFields(1)) >= 2 /\ ParseInt(StoredFields(1)[2]).raised)
              => loc[1].outcome = "False"
        /\ (args[1].genuine # None /\ args[1].stored_hash # args[1].genuine)
              => loc[1].outcome = "False"

\* The three checks the function makes itself do fail closed.
C24_ShapeChecks ==
    pc[1] = "verified" =>
        /\ Len(StoredFields(1)) # 4 => loc[1].outcome = "False"
        /\ StoredFields(1)[1] # AlgorithmTag => loc[1].outcome = "False"
        /\ (Len(StoredFields(1)) >= 2 /\ ParseInt(StoredFields(1)[2]).raised)
              => loc[1].outcome = "False"

C24_Raised == pc[1] = "verified" /\ loc[1].outcome = "ValueError"

C24_AlteredAccepted ==
    /\ pc[1] = "verified"
    /\ args[1].genuine # None
    /\ args[1].stored_hash # args[1].genuine
    /\ loc[1].outcome = "True"

\* The keys heartbeat-or-create may give an agent of that name.
BuiltKeys(name) == { _build_session_key(name, uuid) : uuid \in Uuids }

\* A step of heartbeat-or-create that created the agent or found it keyless.
EnsuredBy(p, i) ==
    /\ pc[p] = "ensure"
    /\ pc'[p] = "provisioning"
    /\ args[p].op = "heartbeat_or_create"
    /\ loc'[p].agent = i

KeyAssignedOnce ==
    /\ \A i \in DOMAIN db :
          /\ i \in DOMAIN db'
          /\ db'[i].name = db[i].name
          /\ db[i].openclaw_session_id # None
                => db'[i].openclaw_session_id = db[i].openclaw_session_id
          /\ db'[i].openclaw_session_id # db[i].openclaw_session_id
                => /\ db'[i].openclaw_session_id \in BuiltKeys(db[i].name)
                   /\ \E p \in DOMAIN pc : EnsuredBy(p, i)
    /\ \A i \in DOMAIN db' \ DOMAIN db :
          /\ db'[i].openclaw_session_id \in BuiltKeys(db'[i].name)
          /\ WithName(db, db'[i].name) = {}
          /\ \E p \in DOMAIN pc : EnsuredBy(p, i)
    /\ \A i, j \in DOMAIN db' : db'[i].name = db'[j].name => i = j

C25_KeptGivenKey ==
    /\ \E p \in DOMAIN pc : pc[p] = "done" /\ args[p].op = "heartbeat_or_create"
                            /\ args[p].name = AdaName
    /\ \E i \in DOMAIN db : db[i].name = AdaName /\ db[i].openclaw_session_id = GivenKey
                            /\ db[i].last_seen_at = 1

\* The words of the lower-cased name after the first.
LaterWords(name) ==
    LET words == Split(Lower(name), " ")
    IN  { words[k] : k \in 2..Len(words) }

\* C26: an agent is matched by the first word of its name, not by a later
\* one; the mention "lead" matches exactly the agents flagged is_board_lead,
\* whatever their names, and not an agent that is only named Lead.
C26_MentionMatching ==
    pc[1] = "matched" =>
        LET agent == args[1].agent
            mentions == args[1].mentions
            named == mentions \ { LeadMention }
        IN  /\ (agent.name # << >> /\ Split(Lower(agent.name), " ")[1] \in named)
                  => loc[1].matched
            /\ (named # {} /\ named \subseteq LaterWords(agent.name)
                  /\ ~agent.is_board_lead) => ~loc[1].matched
            /\ (LeadMention \in mentions /\ agent.is_board_lead) => loc[1].matched
            /\ (mentions = { LeadMention } /\ ~agent.is_board_lead) => ~loc[1].matched
            /\ (mentions = { LeadMention }) => (loc[1].matched <=> agent.is_board_lead)

C26_Witness ==
    /\ pc[1] = "matched"
    /\ args[1].agent.name = << "A", "l", "i", "c", "e", " ", "C", "o", "o", "p", "e", "r" >>
    /\ ~args[1].agent.is_board_lead
    /\ args[1].mentions = { Cooper }
    /\ ~loc[1].matched

C26_LeadNamedOnly ==
    /\ pc[1] = "matched"
    /\ args[1].agent.name = << "L", "e", "a", "d" >>
    /\ ~args[1].agent.is_board_lead
    /\ args[1].mentions = { LeadMention }
    /\ ~loc[1].matched

CallOps == { "ping", "read", "provision", "list" }

CallsOf(p) == { k \in DOMAIN log[p] : log[p][k].op \in CallOps }

\* The rank of a call within the work for one agent: the main agent's
\* listing, the token read, the provisioning.
CallRank(op) == IF op = "list" THEN 1 ELSE IF op = "read" THEN 2 ELSE 3

\* The place in the processing order of an error entry: the probe and the
\* board check come first, then the agents in loop order, then the main agent.
ErrorPlace(p, e) ==
    IF e.message.kind \in { "no_url", "gateway_error", "foreign_board" } THEN 0
    ELSE IF e.agent_id # None THEN PlaceOf(p, e.agent_id[1])
    ELSE Len(loc[p].agents) + 1

\* C27: the gateway calls of an invocation are made one after the other, each
\* ended before the next is made; no token read, listing or provisioning comes
\* before the probe has returned; agents are taken oldest created first, each
\* agent's token read before its provisioning and both before any call for a
\* later agent; every call for the main agent comes after the last call for a
\* board agent; and the error entries are in that same order.
C27_SequentialOrder ==
    \A p \in Procs :
        /\ \A k \in CallsOf(p) :
              k < Len(log[p]) => log[p][k + 1].op \in OutcomeOps
        /\ \A k \in DOMAIN log[p] :
              log[p][k].op \in OutcomeOps => k > 1 /\ (k - 1) \in CallsOf(p)
        /\ \A k \in CallsOf(p) :
              log[p][k].op # "ping"
                 => /\ k > 2
                    /\ log[p][1].op = "ping"
                    /\ log[p][2].op = "return"
        /\ \A j, k \in DOMAIN loc[p].agents :
              j < k => sess[p][loc[p].agents[j]].created_at
                          <= sess[p][loc[p].agents[k]].created_at
        /\ \A j, k \in CallsOf(p) :
              (j < k /\ log[p][j].op # "ping")
                 => \/ PlaceOf(p, log[p][j].agent[1]) < PlaceOf(p, log[p][k].agent[1])
                    \/ /\ log[p][j].agent = log[p][k].agent
                       /\ CallRank(log[p][j].op) < CallRank(log[p][k].op)
        /\ \A a, b \in DOMAIN result[p].errors :
              a < b => ErrorPlace(p, result[p].errors[a])
                          <= ErrorPlace(p, result[p].errors[b])

C27_Witness ==
    \E p \in Procs :
        /\ pc[p] = "done"
        /\ Len(loc[p].agents) = 2
        /\ \A i \in LoopAgents(p) : HasEvent(p, "provision", << i >>)
        /\ HasEvent(p, "provision", << MainId >>)
        /\ Len(result[p].errors) >= 2
        /\ \E a, b \in DOMAIN result[p].errors :
              result[p].errors[a].agent_id = << 1 >> /\ result[p].errors[b].agent_id = << 2 >>

\* The positions at which an invocation has a step left to take.
AwaitingPcs ==
    { "start", "ping", "load", "token", "provision", "main_find", "main_list",
      "main_token", "main_provision" }

StageOf(at) ==
    IF at = "start" THEN 0 ELSE IF at = "ping" THEN 1 ELSE IF at = "load" THEN 2
    ELSE IF at \in { "token", "provision" } THEN 3
    ELSE IF at = "main_find" THEN 4 ELSE IF at = "main_list" THEN 5
    ELSE IF at = "main_token" THEN 6 ELSE IF at = "main_provision" THEN 7 ELSE 8

\* How far invocation p is: its stage, the agent it is at, the call of that
\* agent, the attempt of that call.
Progress(at, l, tries) ==
    StageOf(at) * 1000
    + (IF StageOf(at) = 3 THEN l.idx * 100 + (IF at = "provision" THEN 10 ELSE 0) ELSE 0)
    + tries

\* C28: every invocation returns: it does not stop short of DONE or of an
\* early return with its result.
C28_StopsOnlyByReturning ==
    \A p \in Procs : pc[p] \notin AwaitingPcs => pc[p] = "done"

\* Every step takes the invocation further, and there is no further than the
\* end: an invocation ends.
C28_EveryStepAdvances ==
    [][\A p \in Procs :
          Progress(pc'[p], loc'[p], attempt'[p]) > Progress(pc[p], loc[p], attempt[p])]_vars

\* The failure the run in progress has just slept on, if any.
LastRetry(p) ==
    IF log[p] # << >> /\ log[p][Len(log[p])].op = "retry"
    THEN << log[p][Len(log[p])] >> ELSE << >>

\* C29: at a transient failure before the deadline the sleep is
\* min(delay, remaining) scaled by a factor in [1 - jitter, 1 + jitter] and
\* clamped to [0, remaining], and the delay becomes min(2 * delay, max_delay_s);
\* the delay is always within [base_delay_s, max_delay_s] and no sleep ends
\* after the deadline.
C29_SleepAndDelayBounds ==
    \A p \in Procs :
        /\ base_delay_s <= backoff[p].delay_s
        /\ backoff[p].delay_s <= max_delay_s
        /\ \A k \in DOMAIN LastRetry(p) :
              LET e == LastRetry(p)[k]
                  remaining == deadline_s[p] - e.t
                  first == Min(e.delay, remaining)
              IN  /\ remaining > 0
                  /\ e.sleep >= 0
                  /\ e.sleep <= remaining
                  /\ e.sleep * 1000 <= first * (1000 + jitter)
                  /\ \/ e.sleep = remaining
                     \/ (e.sleep + 1) * 1000 > first * (1000 - jitter)
                  /\ backoff[p].delay_s = Min(2 * e.delay, max_delay_s)
                  /\ now[p] = e.t + e.sleep
                  /\ now[p] <= deadline_s[p]

\* The delay has reached max_delay_s and stays there at the next failure.
C29_Witness ==
    \E p \in Procs : \E k \in DOMAIN LastRetry(p) :
        /\ LastRetry(p)[k].delay = max_delay_s
        /\ backoff[p].delay_s = max_delay_s
        /\ LastRetry(p)[k].sleep > max_delay_s

\* The sleep was cut to what remained before the deadline.
C29_SleepClamped ==
    \E p \in Procs : \E k \in DOMAIN LastRetry(p) :
        /\ LastRetry(p)[k].sleep = deadline_s[p] - LastRetry(p)[k].t
        /\ LastRetry(p)[k].sleep < (LastRetry(p)[k].delay * (1000 - jitter)) \div 1000
        /\ now[p] = deadline_s[p]

Ended2(p) == pc[p] \in { "done", "raised" }

\* The tokens invocation p passed to the provisioning of `who`.
ProvisionTokens(p, who) == { log[p][k].token : k \in EventsOf(p, "provision", who) }

HasEntry(p, kind) ==
    \E k \in DOMAIN result[p].errors : result[p].errors[k].message.kind = kind

\* C30: from the same stored hash, fetched token and rotate_tokens the agent
\* loop (invocation 1, agent 1) and the main phase (invocation 2) decide
\* alike: whether the agent is left unprovisioned, whether a token is
\* generated and its hash persisted, whether the mismatch warning is
\* recorded, and which token provisioning is given; the main phase sets
\* main_updated and leaves agents_updated and agents_skipped alone.
C30_SameDecisions ==
    (Ended2(1) /\ Ended2(2)) =>
        /\ pc[1] = "raised" <=> pc[2] = "raised"
        /\ HasEvent(1, "provision", << 1 >>) <=> HasEvent(2, "provision", << MainId >>)
        /\ Cardinality(EventsOf(1, "rotate", << 1 >>))
              = Cardinality(EventsOf(2, "rotate", << MainId >>))
        /\ HasEvent(1, "rotate", << 1 >>)
              => /\ \A t \in ProvisionTokens(1, << 1 >>) :
                       t \in GeneratedTokens /\ Verify(t, db[1].agent_token_hash) = "True"
                 /\ \A t \in ProvisionTokens(2, << MainId >>) :
                       t \in GeneratedTokens /\ Verify(t, db[MainId].agent_token_hash) = "True"
        /\ ~HasEvent(1, "rotate", << 1 >>)
              => /\ db[1].agent_token_hash = db[MainId].agent_token_hash
                 /\ ProvisionTokens(1, << 1 >>) = ProvisionTokens(2, << MainId >>)
        /\ HasEntry(1, "mismatch") <=> HasEntry(2, "main_mismatch")
        /\ HasEntry(1, "no_token") <=> HasEntry(2, "main_no_token")
        /\ Len(result[1].errors) = Len(result[2].errors)
        /\ result[2].agents_updated = 0
        /\ result[2].agents_skipped = 0
        /\ result[2].main_updated <=> Ended(2, "provision", << MainId >>, "return")
        /\ ~result[1].main_updated
        /\ result[1].agents_updated = 1 <=> result[2].main_updated

C30_Witness ==
    /\ Ended2(1) /\ Ended2(2)
    /\ args[1].rotate_tokens
    /\ HasEvent(1, "mismatch", << 1 >>) /\ HasEvent(1, "rotate", << 1 >>)
    /\ HasEvent(2, "mismatch", << MainId >>) /\ HasEvent(2, "rotate", << MainId >>)
    /\ result[2].main_updated /\ result[1].agents_updated = 1

C30_UnreadableBoth ==
    /\ Ended2(1) /\ Ended2(2)
    /\ ~args[1].rotate_tokens
    /\ HasEntry(1, "no_token") /\ HasEntry(2, "main_no_token")
    /\ result[1].agents_skipped = 1 /\ result[2].agents_skipped = 0

\* Invocation p had reason to re-key record i: no token could be read for
\* it, or the token read did not verify against its stored hash.
UnreadableOrMismatched(p, i) ==
    TokenUnreadable(p, i) \/ HasEvent(p, "mismatch", << i >>)

\* A step that leaves the stored hashes and timestamps alone unless tokens
\* are rotated, and that writes a record only with reason to.
WritesOnlyOnRotation ==
    \A p \in Procs :
        /\ ~args[p].rotate_tokens
              => \A i \in DOMAIN db :
                    /\ db'[i].agent_token_hash = db[i].agent_token_hash
                    /\ db'[i].updated_at = db[i].updated_at
        /\ \A i \in DOMAIN db :
              (\/ db'[i].agent_token_hash # db[i].agent_token_hash
               \/ db'[i].updated_at # db[i].updated_at)
                 => /\ args[p].rotate_tokens
                    /\ (UnreadableOrMismatched(p, i))'
        /\ \A i \in DOMAIN db :
              (TokenReadable(p, i) /\ ~HasEvent(p, "mismatch", << i >>))'
                 => /\ (~HasEvent(p, "rotate", << i >>))'
                    /\ db'[i].agent_token_hash = db[i].agent_token_hash
                    /\ db'[i].updated_at = db[i].updated_at

\* C31: without rotate_tokens a run leaves every agent's agent_token_hash and
\* updated_at as they were, whatever the gateway answers; a hash is written
\* only with rotate_tokens and an unreadable or mismatched token, never for an
\* agent whose token verifies or that has a readable token and no stored hash.
C31_HashWrittenOnlyOnRotation == [][WritesOnlyOnRotation]_vars

C31_Witness ==
    \E p \in Procs :
        /\ pc[p] = "done"
        /\ ~args[p].rotate_tokens
        /\ HasEvent(p, "mismatch", << 1 >>)
        /\ TokenUnreadable(p, 2)
        /\ db[1].agent_token_hash = Hash1 /\ db[1].updated_at = 0
        /\ db[2].updated_at = 0

C31_UnhashedNotRekeyed ==
    \E p \in Procs :
        /\ pc[p] = "done"
        /\ args[p].rotate_tokens
        /\ \E i \in LoopAgents(p) :
              /\ TokenReadable(p, i)
              /\ db[i].agent_token_hash = None
              /\ Ended(p, "provision", << i >>, "return")

\* Invocation p rotated the token of record i and the provisioning call that
\* was to deliver it raised or timed out.
RotatedThenFailed(p, i) ==
    /\ HasEvent(p, "rotate", << i >>)
    /\ \/ Ended(p, "provision", << i >>, "raise")
       \/ Ended(p, "provision", << i >>, "timeout")

\* The token last generated by invocation p for record i.
LastRotated(p, i) ==
    LET last == CHOOSE k \in EventsOf(p, "rotate", << i >>) :
                    \A j \in EventsOf(p, "rotate", << i >>) : j <= k
    IN  log[p][last].token

\* The token in the TOOLS.md the gateway holds for record i, none if it holds
\* no such file or the file names no token.
HeldToken(p, i) ==
    LET id == IF i = MainId THEN loc[p].gateway_agent_id ELSE GwId(db[i])
    IN  IF id \in DOMAIN FilesOf(p)
        THEN _parse_tools_md_get(FilesOf(p)[id], AuthTokenKey)
        ELSE None

\* The rotation of record i stands and the gateway was not given its token.
RotationStands(p, i) ==
    /\ db[i].updated_at > 0
    /\ Verify(LastRotated(p, i), db[i].agent_token_hash) = "True"
    /\ HeldToken(p, i) # LastRotated(p, i)
    /\ HeldToken(p, i) = None \/ Verify(HeldToken(p, i), db[i].agent_token_hash) # "True"
    /\ ErrorsOf(p, << i >>) # {}

\* The records, board agents and the main agent, whose failed provisioning
\* followed a rotation.
FailedAfterRotation(p) ==
    { i \in LoopAgents(p) \cup { MainId } : RotatedThenFailed(p, i) }

\* C32 as stated: every record whose rotation was followed by a failed
\* provisioning, the main agent's included, is counted in agents_skipped.
C32_EveryFailureCountedSkipped ==
    \A p \in Procs :
        pc[p] = "done" =>
            /\ \A i \in FailedAfterRotation(p) : RotationStands(p, i)
            /\ result[p].agents_skipped
                  = Cardinality(SkippedAgents(p) \cup FailedAfterRotation(p))

\* C32: a rotation is never rolled back. Once a record's hash was rotated and
\* the provisioning that was to deliver the new token raised a soft error or
\* timed out, the new hash stays stored, an error is recorded for the record
\* and the gateway holds the old token or none, which the stored hash does
\* not verify; after the run a board agent is counted in agents_skipped,
\* while for the main agent main_updated stays false and agents_skipped
\* counts the board agents only.
C32_RotationNeverRolledBack ==
    \A p \in Procs :
        /\ \A i \in FailedAfterRotation(p) : RotationStands(p, i)
        /\ pc[p] = "done" =>
              /\ FailedAfterRotation(p) \ { MainId } \subseteq SkippedAgents(p)
              /\ result[p].agents_skipped = Cardinality(SkippedAgents(p))
              /\ MainId \in FailedAfterRotation(p) => ~result[p].main_updated

C32_Witness ==
    \E p \in Procs :
        /\ pc[p] = "done"
        /\ \E i \in LoopAgents(p) :
              /\ TokenUnreadable(p, i)
              /\ HasEvent(p, "rotate", << i >>)
              /\ Ended(p, "provision", << i >>, "raise")
              /\ HeldToken(p, i) = None
              /\ result[p].agents_skipped >= 1
        /\ db[MainId].updated_at = 0

C32_MainFailedAfterRotation ==
    \E p \in Procs :
        /\ pc[p] = "done"
        /\ HasEvent(p, "mismatch", << MainId >>)
        /\ RotatedThenFailed(p, MainId)
        /\ HeldToken(p, MainId) # None
        /\ result[p].agents_skipped = 0
        /\ ~result[p].main_updated

C32_TimedOutAfterRotation ==
    \E p \in Procs :
        /\ pc[p] = "done"
        /\ \E i \in LoopAgents(p) :
              /\ HasEvent(p, "mismatch", << i >>)
              /\ HasEvent(p, "rotate", << i >>)
              /\ Ended(p, "provision", << i >>, "timeout")
              /\ HeldToken(p, i) # None

\* The trace entries of invocation p about record i that come after entry k.
LaterEvents(p, i, k) ==
    { j \in DOMAIN log[p] : j > k /\ log[p][j].agent = << i >> }

\* C33: within one run the token hash of an agent record, a board agent's or
\* the main agent's, is rotated at most once. The record is committed as often
\* as it was rotated; the token generated verifies against the hash stored;
\* after a rotation made for an unreadable token the check that follows finds
\* the new token verified, and after any rotation the run reaches no mismatch,
\* no failed check and no second rotation for the record.
C33_RotatedAtMostOnce ==
    \A p \in Procs : \A i \in DOMAIN db :
        /\ Cardinality(EventsOf(p, "rotate", << i >>)) <= 1
        /\ db[i].updated_at = Cardinality(EventsOf(p, "rotate", << i >>))
        /\ \A k \in EventsOf(p, "rotate", << i >>) :
              /\ Verify(log[p][k].token, db[i].agent_token_hash) = "True"
              /\ \A j \in LaterEvents(p, i, k) :
                    log[p][j].op \notin { "rotate", "mismatch", "verify_raised" }
              /\ TokenUnreadable(p, i)
                    => /\ k + 1 \in LaterEvents(p, i, k)
                       /\ log[p][k + 1].op = "verified"
                       /\ log[p][k + 1].token = log[p][k].token
              /\ ~TokenUnreadable(p, i)
                    => /\ k > 1 /\ log[p][k - 1].op = "mismatch"
                       /\ log[p][k - 1].agent = << i >>
                       /\ \A j \in LaterEvents(p, i, k) : log[p][j].op # "verified"

C33_Witness ==
    \E p \in Procs :
        /\ pc[p] = "done"
        /\ args[p].rotate_tokens
        /\ \E i \in LoopAgents(p) :
              /\ TokenUnreadable(p, i)
              /\ Cardinality(EventsOf(p, "rotate", << i >>)) = 1
              /\ HasEvent(p, "verified", << i >>)
              /\ Ended(p, "provision", << i >>, "return")
              /\ db[i].updated_at = 1
              /\ HeldToken(p, i) \in GeneratedTokens

C33_MainRotatedOnce ==
    \E p \in Procs :
        /\ pc[p] = "done"
        /\ TokenUnreadable(p, MainId)
        /\ Cardinality(EventsOf(p, "rotate", << MainId >>)) = 1
        /\ HasEvent(p, "verified", << MainId >>)
        /\ Ended(p, "provision", << MainId >>, "return")
        /\ \E i \in LoopAgents(p) :
              HasEvent(p, "mismatch", << i >>) /\ HasEvent(p, "rotate", << i >>)

=============================================================================
